---------------------------- MODULE Spec2Model ----------------------------
(***************************************************************************)
(* A model of the calculator of project1: the operation library and the    *)
(* console session of calculater.py, and the two restricted expression     *)
(* evaluators (calculater.py and smart_calculator_gui.py).                 *)
(*                                                                         *)
(* Numbers.  A Python number is a record [ty, cls, n, d]:                  *)
(*   ty  : "int" or "float" ("none" for the value None)                    *)
(*   cls : "fin"     the rational n/d in lowest terms, d > 0               *)
(*         "inf"     float infinity of sign n (1 or -1)                    *)
(*         "nan"     float NaN                                             *)
(*         "approx"  a finite float whose value is not a small rational    *)
(*                   (sin(1), sqrt(2), pi ...): the model keeps no value   *)
(*                   for it, and arithmetic on it is "approx" again        *)
(*         "complex" a complex result of ** (negative base, fractional     *)
(*                   exponent)                                             *)
(* A finite float is modelled by the rational it stands for; the rounding  *)
(* of binary floating point and the sign of zero are not modelled.         *)
(***************************************************************************)
EXTENDS Integers, Sequences, FiniteSets, TLC

VARIABLES
    history,     \* Calculator.history: the session's list of entries
    memory,      \* Calculator.memory: None or the last result
    pc,          \* where the program is: "menu", "done", "raised" for
                 \* Calculator.run; "call", "returned" for a direct call
    mathDict,    \* the names bound in the math module's __dict__
    shown,       \* what the last 'h' input printed
    last,        \* the last menu choice and how its handling ended
    steps,       \* how many times the menu prompt was answered
    call,        \* a direct call of a library function or of an evaluator
    ret,         \* what that call returned or raised
    log,         \* the direct calls made so far, with their outcomes
    input_var,   \* SmartCalculatorApp.input_var: the text of the entry
    result_var,  \* SmartCalculatorApp.result_var: the text of the result label
    history_box  \* SmartCalculatorApp.history_box: its lines, index 0 first

vars ==
    <<history, memory, pc, mathDict, shown, last, steps, call, ret, log,
      input_var, result_var, history_box>>

-----------------------------------------------------------------------------
(* Python numbers                                                          *)

Num(ty, cls, n, d) == [ty |-> ty, cls |-> cls, n |-> n, d |-> d]

None == Num("none", "none", 0, 1)

NaN == Num("float", "nan", 0, 1)

PInf == Num("float", "inf", 1, 1)

NInf == Num("float", "inf", -1, 1)

Approx == Num("float", "approx", 0, 1)

Complex == Num("complex", "complex", 0, 1)

Abs(k) == IF k < 0 THEN -k ELSE k

Sgn(k) == IF k < 0 THEN -1 ELSE IF k > 0 THEN 1 ELSE 0

RECURSIVE Gcd(_, _)
Gcd(a, b) == IF b = 0 THEN a ELSE Gcd(b, a % b)

\* the rational n/d (d # 0) in lowest terms, as a number of type ty
Norm(ty, n, d) ==
    LET g == Gcd(Abs(n), Abs(d))
    IN  Num(ty, "fin", (Sgn(d) * n) \div g, Abs(d) \div g)

I(k) == Num("int", "fin", k, 1)

F(n, d) == Norm("float", n, d)

\* floor(p / q) for q # 0
FloorQ(p, q) == IF q > 0 THEN p \div q ELSE (-p) \div (-q)

RECURSIVE IntPow(_, _)
IntPow(b, k) == IF k = 0 THEN 1 ELSE b * IntPow(b, k - 1)

IsNum(v) == v.ty \in {"int", "float"}

IsFin(v) == v.cls = "fin"

IsZero(v) == v.cls = "fin" /\ v.n = 0

\* the sign of a finite or infinite number
SgnOf(v) == Sgn(v.n)

\* float(x)
ToFloat(v) == IF v.ty = "int" THEN [v EXCEPT !.ty = "float"] ELSE v

ResTy(a, b) == IF a.ty = "int" /\ b.ty = "int" THEN "int" ELSE "float"

\* a < b (False when either is NaN; an untracked value compares False)
Lt(a, b) ==
    IF a.cls \in {"nan", "approx", "complex"} \/ b.cls \in {"nan", "approx", "complex"}
    THEN FALSE
    ELSE IF a.cls = "inf" THEN a.n = -1 /\ ~(b.cls = "inf" /\ b.n = -1)
    ELSE IF b.cls = "inf" THEN b.n = 1
    ELSE a.n * b.d < b.n * a.d

Gt(a, b) == Lt(b, a)

\* a == b
Eq(a, b) ==
    IF a.cls \in {"nan", "approx", "complex"} \/ b.cls \in {"nan", "approx", "complex"}
    THEN FALSE
    ELSE a.cls = b.cls /\ a.n = b.n /\ a.d = b.d

Le(a, b) == Lt(a, b) \/ Eq(a, b)

\* -a
PyNeg(a) ==
    IF a.cls \in {"fin", "inf"} THEN [a EXCEPT !.n = -a.n] ELSE a

\* a + b
PyAdd(a, b) ==
    IF a.cls = "complex" \/ b.cls = "complex" THEN Complex
    ELSE IF a.cls = "nan" \/ b.cls = "nan" THEN NaN
    ELSE IF a.cls = "inf" /\ b.cls = "inf" THEN (IF a.n = b.n THEN a ELSE NaN)
    ELSE IF a.cls = "inf" THEN a
    ELSE IF b.cls = "inf" THEN b
    ELSE IF a.cls = "approx" \/ b.cls = "approx" THEN Approx
    ELSE Norm(ResTy(a, b), a.n * b.d + b.n * a.d, a.d * b.d)

\* a - b
PySub(a, b) == PyAdd(a, PyNeg(b))

\* a * b
PyMul(a, b) ==
    IF a.cls = "complex" \/ b.cls = "complex" THEN Complex
    ELSE IF a.cls = "nan" \/ b.cls = "nan" THEN NaN
    ELSE IF a.cls = "inf" \/ b.cls = "inf" THEN
        (IF IsZero(a) \/ IsZero(b) THEN NaN
         ELSE IF a.cls = "approx" \/ b.cls = "approx" THEN Approx
         ELSE Num("float", "inf", SgnOf(a) * SgnOf(b), 1))
    ELSE IF IsZero(a) \/ IsZero(b) THEN Norm(ResTy(a, b), 0, 1)
    ELSE IF a.cls = "approx" \/ b.cls = "approx" THEN Approx
    ELSE Norm(ResTy(a, b), a.n * b.n, a.d * b.d)

\* a / b for b # 0: always a float
TrueDivVal(a, b) ==
    IF a.cls = "complex" \/ b.cls = "complex" THEN Complex
    ELSE IF a.cls = "nan" \/ b.cls = "nan" THEN NaN
    ELSE IF a.cls = "inf" THEN
        (IF b.cls = "inf" THEN NaN
         ELSE IF b.cls = "approx" THEN Approx
         ELSE Num("float", "inf", SgnOf(a) * SgnOf(b), 1))
    ELSE IF b.cls = "inf" THEN F(0, 1)
    ELSE IF IsZero(a) THEN F(0, 1)
    ELSE IF a.cls = "approx" \/ b.cls = "approx" THEN Approx
    ELSE Norm("float", a.n * b.d, a.d * b.n)

\* a % b for b # 0: the sign of the result follows the divisor
ModVal(a, b) ==
    IF a.cls = "complex" \/ b.cls = "complex" THEN Complex
    ELSE IF a.cls = "nan" \/ b.cls = "nan" THEN NaN
    ELSE IF a.cls = "inf" THEN NaN
    ELSE IF a.cls = "approx" \/ b.cls = "approx" THEN Approx
    ELSE IF b.cls = "inf" THEN
        (IF IsZero(a) \/ SgnOf(a) = SgnOf(b) THEN ToFloat(a) ELSE b)
    ELSE LET q == FloorQ(a.n * b.d, a.d * b.n)
         IN  Norm(ResTy(a, b), a.n * b.d - q * b.n * a.d, a.d * b.d)

\* a // b for b # 0: an int for two ints, otherwise a float
FloorDivVal(a, b) ==
    IF a.cls = "complex" \/ b.cls = "complex" THEN Complex
    ELSE IF a.cls = "nan" \/ b.cls = "nan" THEN NaN
    ELSE IF a.cls = "inf" THEN NaN
    ELSE IF a.cls = "approx" \/ b.cls = "approx" THEN Approx
    ELSE IF b.cls = "inf" THEN
        (IF IsZero(a) \/ SgnOf(a) = SgnOf(b) THEN F(0, 1) ELSE F(-1, 1))
    ELSE Norm(ResTy(a, b), FloorQ(a.n * b.d, a.d * b.n), 1)

\* min(x, y) and max(x, y) of two arguments: the first one unless the second
\* compares smaller (greater)
PyMin(x, y) == IF Lt(y, x) THEN y ELSE x

PyMax(x, y) == IF Gt(y, x) THEN y ELSE x

\* abs(x)
PyAbs(x) == IF x.cls \in {"fin", "inf"} THEN [x EXCEPT !.n = Abs(x.n)] ELSE x

\* float.is_integer()
IsInteger(x) == x.cls = "fin" /\ x.d = 1

-----------------------------------------------------------------------------
(* Outcomes of a call: a returned number or a raised exception             *)

Ok(v) == [ok |-> TRUE, val |-> v, err |-> "", msg |-> ""]

Raise(e, m) == [ok |-> FALSE, val |-> None, err |-> e, msg |-> m]

\* int(x): truncation towards zero
PyInt(x) ==
    IF x.cls = "nan" THEN Raise("ValueError", "cannot convert float NaN to integer")
    ELSE IF x.cls = "inf"
    THEN Raise("OverflowError", "cannot convert float infinity to integer")
    ELSE IF x.cls # "fin" THEN Raise("TypeError", "int() argument")
    ELSE Ok(I(Sgn(x.n) * (Abs(x.n) \div x.d)))

\* a / b
PyTrueDiv(a, b) ==
    IF IsZero(b) THEN Raise("ZeroDivisionError", "division by zero")
    ELSE Ok(TrueDivVal(a, b))

IsSquare(k) == \E r \in 0..k : r * r = k

Root(k) == CHOOSE r \in 0..k : r * r = k

\* a ** b
PyPow(a, b) ==
    IF a.cls = "complex" \/ b.cls = "complex" THEN Ok(Complex)
    ELSE IF IsZero(b) THEN Ok(Norm(ResTy(a, b), 1, 1))
    ELSE IF a.cls = "fin" /\ a.n = 1 /\ a.d = 1 THEN
        Ok(Norm(IF b.cls = "fin" /\ b.n < 0 THEN "float" ELSE ResTy(a, b), 1, 1))
    ELSE IF a.cls = "nan" \/ b.cls = "nan" THEN Ok(NaN)
    ELSE IF a.cls = "approx" \/ b.cls = "approx" THEN Ok(Approx)
    ELSE IF b.cls = "inf" THEN
        (IF a.cls = "inf" THEN Ok(IF b.n = 1 THEN PInf ELSE F(0, 1))
         ELSE IF Abs(a.n) = a.d THEN Ok(F(1, 1))
         ELSE IF (Abs(a.n) < a.d) = (b.n = 1) THEN Ok(F(0, 1))
         ELSE Ok(PInf))
    ELSE IF a.cls = "inf" THEN
        (IF b.n < 0 THEN Ok(F(0, 1))
         ELSE IF a.n = -1 /\ b.d = 1 /\ b.n % 2 = 1 THEN Ok(NInf)
         ELSE Ok(PInf))
    ELSE IF b.d = 1 THEN
        (IF b.n > 0
         THEN Ok(Norm(ResTy(a, b), IntPow(a.n, b.n), IntPow(a.d, b.n)))
         ELSE IF a.n = 0 THEN Raise("ZeroDivisionError", "0.0 cannot be raised to a negative power")
         ELSE Ok(Norm("float", IntPow(a.d, -b.n), IntPow(a.n, -b.n))))
    ELSE IF a.n = 0 THEN
        (IF b.n > 0 THEN Ok(F(0, 1))
         ELSE Raise("ZeroDivisionError", "0.0 cannot be raised to a negative power"))
    ELSE IF a.n < 0 THEN Ok(Complex)
    ELSE IF b.d = 2 /\ IsSquare(a.n) /\ IsSquare(a.d) THEN
        (IF b.n > 0
         THEN Ok(F(IntPow(Root(a.n), b.n), IntPow(Root(a.d), b.n)))
         ELSE Ok(F(IntPow(Root(a.d), -b.n), IntPow(Root(a.n), -b.n))))
    ELSE Ok(Approx)

-----------------------------------------------------------------------------
(* The math module: the values of its functions on the numbers above, and  *)
(* the lookup of its attributes in mathDict                                *)

MathNames ==
    {"sqrt", "log", "log10", "sin", "cos", "tan", "asin", "acos", "atan",
     "sinh", "cosh", "tanh", "radians", "degrees", "factorial", "gcd",
     "floor", "pow", "pi", "e"}

DomainError == Raise("ValueError", "math domain error")

NoAttribute == Raise("AttributeError", "module has no attribute")

\* math.sqrt(x)
MathSqrt(x) ==
    IF x.cls = "nan" THEN Ok(NaN)
    ELSE IF x.cls = "inf" THEN (IF x.n = 1 THEN Ok(PInf) ELSE DomainError)
    ELSE IF x.cls # "fin" THEN Ok(Approx)
    ELSE IF x.n < 0 THEN DomainError
    ELSE IF IsSquare(x.n) /\ IsSquare(x.d) THEN Ok(F(Root(x.n), Root(x.d)))
    ELSE Ok(Approx)

\* math.log10(x)
MathLog10(x) ==
    IF x.cls = "nan" THEN Ok(NaN)
    ELSE IF x.cls = "inf" THEN (IF x.n = 1 THEN Ok(PInf) ELSE DomainError)
    ELSE IF x.cls # "fin" THEN Ok(Approx)
    ELSE IF x.n <= 0 THEN DomainError
    ELSE IF x.d = 1 /\ x.n \in {1, 10, 100}
    THEN Ok(F(CHOOSE k \in 0..2 : IntPow(10, k) = x.n, 1))
    ELSE Ok(Approx)

\* math.log(x)
MathLog(x) ==
    IF x.cls = "nan" THEN Ok(NaN)
    ELSE IF x.cls = "inf" THEN (IF x.n = 1 THEN Ok(PInf) ELSE DomainError)
    ELSE IF x.cls # "fin" THEN Ok(Approx)
    ELSE IF x.n <= 0 THEN DomainError
    ELSE IF x.n = 1 /\ x.d = 1 THEN Ok(F(0, 1))
    ELSE Ok(Approx)

\* math.log(x, base) = log(x) / log(base), for x > 0, base > 0, base # 1
MathLogBase(x, base) ==
    IF x.cls = "nan" \/ base.cls = "nan" THEN Ok(NaN)
    ELSE IF x.cls = "inf" /\ base.cls = "inf" THEN Ok(NaN)
    ELSE IF x.cls = "inf"
    THEN Ok(IF base.cls = "fin" /\ base.n < base.d THEN NInf ELSE PInf)
    ELSE IF base.cls = "inf" THEN Ok(F(0, 1))
    ELSE IF x.cls # "fin" \/ base.cls # "fin" THEN Ok(Approx)
    ELSE IF x.n = x.d THEN Ok(F(0, 1))
    ELSE IF x.n = base.n /\ x.d = base.d THEN Ok(F(1, 1))
    ELSE IF x.n = base.n * base.n /\ x.d = base.d * base.d THEN Ok(F(2, 1))
    ELSE IF base.n = x.n * x.n /\ base.d = x.d * x.d THEN Ok(F(1, 2))
    ELSE IF x.n = base.d /\ x.d = base.n THEN Ok(F(-1, 1))
    ELSE IF x.n * x.n = base.d /\ x.d * x.d = base.n THEN Ok(F(-1, 2))
    ELSE IF x.n = base.d * base.d /\ x.d = base.n * base.n THEN Ok(F(-2, 1))
    ELSE Ok(Approx)

\* math.radians(x), math.degrees(x)
MathScale(x) ==
    IF x.cls \in {"nan", "inf"} THEN Ok(x)
    ELSE IF IsZero(x) THEN Ok(F(0, 1))
    ELSE Ok(Approx)

\* math.sin, math.cos, math.tan of math.radians(x)
TrigOfDegrees(fn, x) ==
    IF x.cls = "nan" THEN Ok(NaN)
    ELSE IF x.cls = "inf" THEN DomainError
    ELSE IF IsZero(x) THEN Ok(IF fn = "cos" THEN F(1, 1) ELSE F(0, 1))
    ELSE Ok(Approx)

\* math.sinh, math.cosh, math.tanh
MathHyperbolic(fn, x) ==
    IF x.cls = "nan" THEN Ok(NaN)
    ELSE IF x.cls = "inf" THEN
        Ok(IF fn = "sinh" THEN x ELSE IF fn = "cosh" THEN PInf ELSE F(x.n, 1))
    ELSE IF IsZero(x) THEN Ok(IF fn = "cosh" THEN F(1, 1) ELSE F(0, 1))
    ELSE Ok(Approx)

\* math.degrees of math.asin(x), math.acos(x), math.atan(x)
DegreesOfInverse(fn, x) ==
    IF x.cls = "nan" THEN Ok(NaN)
    ELSE IF x.cls = "inf" THEN
        (IF fn = "atan" THEN Ok(F(90 * x.n, 1)) ELSE DomainError)
    ELSE IF x.cls # "fin" THEN Ok(Approx)
    ELSE IF fn # "atan" /\ Abs(x.n) > x.d THEN DomainError
    ELSE IF x.d = 1 /\ x.n \in {-1, 0, 1} THEN
        Ok(IF fn = "asin" THEN F(90 * x.n, 1)
           ELSE IF fn = "acos" THEN F(90 - 90 * x.n, 1)
           ELSE F(45 * x.n, 1))
    ELSE Ok(Approx)

RECURSIVE Fact(_)
Fact(k) == IF k <= 0 THEN 1 ELSE k * Fact(k - 1)

\* the math module's function fn, looked up in the module dictionary md when
\* it is called
MathCall(md, fn, x) ==
    IF fn \notin md THEN NoAttribute
    ELSE CASE fn = "sqrt" -> MathSqrt(x)
           [] fn = "log10" -> MathLog10(x)
           [] fn = "log" -> MathLog(x)
           [] fn \in {"radians", "degrees"} -> MathScale(x)
           [] fn \in {"sin", "cos", "tan"} ->
                IF "radians" \in md THEN TrigOfDegrees(fn, x) ELSE NoAttribute
           [] fn \in {"sinh", "cosh", "tanh"} -> MathHyperbolic(fn, x)
           [] fn \in {"asin", "acos", "atan"} ->
                IF "degrees" \in md THEN DegreesOfInverse(fn, x) ELSE NoAttribute
           [] fn = "factorial" -> Ok(I(Fact(x.n)))
           [] OTHER -> Raise("TypeError", "not callable")

-----------------------------------------------------------------------------
(* The operation library of calculater.py                                  *)

add(x, y) == Ok(ToFloat(PyAdd(x, y)))

subtract(x, y) == Ok(ToFloat(PySub(x, y)))

multiply(x, y) == Ok(ToFloat(PyMul(x, y)))

\* a variant of divide that returns float(x * y)
divide_multiplying(x, y) ==
    IF IsZero(y) THEN Raise("ZeroDivisionError", "Division by zero")
    ELSE Ok(ToFloat(PyMul(x, y)))

divide(x, y) ==
    IF IsZero(y) THEN Raise("ZeroDivisionError", "Division by zero")
    ELSE Ok(ToFloat(TrueDivVal(x, y)))

exponent(x, y) ==
    LET p == PyPow(x, y)
    IN  IF ~p.ok THEN p
        ELSE IF p.val.cls = "complex" THEN Raise("TypeError", "float() argument")
        ELSE Ok(ToFloat(p.val))

modulus(x, y) ==
    IF IsZero(y) THEN Raise("ZeroDivisionError", "Modulus by zero")
    ELSE Ok(ToFloat(ModVal(x, y)))

floor_divide(x, y) ==
    IF IsZero(y) THEN Raise("ZeroDivisionError", "Floor division by zero")
    ELSE PyInt(FloorDivVal(x, y))

square_root(x) ==
    IF Lt(x, I(0)) THEN Raise("ValueError", "Square root of negative number")
    ELSE MathCall(mathDict, "sqrt", x)

log10(x) ==
    IF Le(x, I(0)) THEN Raise("ValueError", "log10 undefined for non-positive numbers")
    ELSE MathCall(mathDict, "log10", x)

natural_log(x) ==
    IF Le(x, I(0)) THEN Raise("ValueError", "ln undefined for non-positive numbers")
    ELSE MathCall(mathDict, "log", x)

sine(x) == MathCall(mathDict, "sin", ToFloat(x))

cosine(x) == MathCall(mathDict, "cos", ToFloat(x))

tangent(x) == MathCall(mathDict, "tan", ToFloat(x))

\* a variant of factorial without the is_integer test: int(x) truncates
factorial_truncating(x) ==
    IF ~PyInt(x).ok THEN Raise("ValueError", "factorial requires an integer value")
    ELSE IF Lt(PyInt(x).val, I(0))
    THEN Raise("ValueError", "factorial not defined for negative integers")
    ELSE MathCall(mathDict, "factorial", PyInt(x).val)

factorial(x) ==
    IF ~IsInteger(ToFloat(x)) THEN Raise("ValueError", "factorial requires an integer value")
    ELSE LET n == PyInt(x).val
         IN  IF Lt(n, I(0))
             THEN Raise("ValueError", "factorial not defined for negative integers")
             ELSE MathCall(mathDict, "factorial", n)

absolute(x) == Ok(PyAbs(x))

power_of_ten(x) ==
    LET p == PyPow(I(10), x)
    IN  IF p.ok THEN Ok(ToFloat(p.val)) ELSE p

to_radians(x) == MathCall(mathDict, "radians", ToFloat(x))

to_degrees(x) == MathCall(mathDict, "degrees", ToFloat(x))

sign(x) == IF Gt(x, I(0)) THEN Ok(I(1)) ELSE IF Lt(x, I(0)) THEN Ok(I(-1)) ELSE Ok(I(0))

sinh(x) == MathCall(mathDict, "sinh", ToFloat(x))

cosh(x) == MathCall(mathDict, "cosh", ToFloat(x))

tanh(x) == MathCall(mathDict, "tanh", ToFloat(x))

asin(x) ==
    IF Lt(x, I(-1)) \/ Gt(x, I(1)) THEN Raise("ValueError", "asin input must be in [-1, 1]")
    ELSE MathCall(mathDict, "asin", ToFloat(x))

acos(x) ==
    IF Lt(x, I(-1)) \/ Gt(x, I(1)) THEN Raise("ValueError", "acos input must be in [-1, 1]")
    ELSE MathCall(mathDict, "acos", ToFloat(x))

atan(x) == MathCall(mathDict, "atan", ToFloat(x))

\* a variant of clamp with the two bounds exchanged in the result
clamp_bounds_swapped(x, min_value, max_value) ==
    IF Gt(min_value, max_value)
    THEN Raise("ValueError", "min_value cannot be greater than max_value")
    ELSE Ok(ToFloat(PyMax(PyMin(x, min_value), max_value)))

clamp(x, min_value, max_value) ==
    IF Gt(min_value, max_value)
    THEN Raise("ValueError", "min_value cannot be greater than max_value")
    ELSE Ok(ToFloat(PyMax(PyMin(x, max_value), min_value)))

percentage(x, percent) == Ok(ToFloat(TrueDivVal(PyMul(x, percent), F(100, 1))))

gcd(x, y) ==
    IF "gcd" \notin mathDict THEN NoAttribute
    ELSE IF ~PyInt(x).ok THEN PyInt(x)
    ELSE IF ~PyInt(y).ok THEN PyInt(y)
    ELSE Ok(I(Gcd(Abs(PyInt(x).val.n), Abs(PyInt(y).val.n))))

lcm(x, y) ==
    IF ~PyInt(x).ok THEN PyInt(x)
    ELSE IF ~PyInt(y).ok THEN PyInt(y)
    ELSE LET a == PyInt(x).val.n
             b == PyInt(y).val.n
         IN  IF a = 0 \/ b = 0 THEN Ok(I(0))
             ELSE IF "gcd" \notin mathDict THEN NoAttribute
             ELSE Ok(I(Abs(a * b) \div Gcd(Abs(a), Abs(b))))

log_custom(x, base) ==
    IF Le(x, I(0)) \/ Le(base, I(0)) \/ Eq(base, I(1))
    THEN Raise("ValueError", "log undefined for given x/base")
    ELSE IF "log" \notin mathDict THEN NoAttribute
    ELSE MathLogBase(x, base)

-----------------------------------------------------------------------------
(* Expression strings.  A string is a sequence of tokens; a token is a     *)
(* number literal, a string literal, an identifier, an operator or a run   *)
(* of whitespace.                                                          *)

Whitespace == {" ", "\t"}

\* the character of s at i, "" outside s
Ch(s, i) == IF 1 <= i /\ i <= Len(s) THEN SubSeq(s, i, i) ELSE ""

\* the characters of the texts that are neither whitespace nor matched by \w
Punctuation == {"+", "-", "*", "/", "(", ")", ".", "^", "=", "%", ":", ",", "'"}

\* \w
IsWordChar(c) == c # "" /\ c \notin Whitespace /\ c \notin Punctuation

DecimalDigits == "0123456789"

IsDigit(c) == \E k \in 1..Len(DecimalDigits) : Ch(DecimalDigits, k) = c

\* \s, \w, [\w\.\(\)], [-\w\.\(\)] and [0-9]
InClass(cls, c) ==
    CASE cls = "space" -> c \in Whitespace
      [] cls = "word" -> IsWordChar(c)
      [] cls = "operand" -> IsWordChar(c) \/ c \in {".", "(", ")"}
      [] cls = "value" -> IsWordChar(c) \/ c \in {".", "(", ")", "-"}
      [] cls = "digit" -> IsDigit(c)

\* where the longest run of characters of a class that starts at i ends: the
\* index after it (i when there is no such character at i)
RECURSIVE SpanEnd(_, _, _)
SpanEnd(s, i, cls) == IF InClass(cls, Ch(s, i)) THEN SpanEnd(s, i + 1, cls) ELSE i

\* where the digits of an exponent that starts at i (e, a sign or none, one
\* digit at least) end; i when there is no exponent at i
ExponentEnd(s, i) ==
    LET c == IF Ch(s, i + 1) \in {"+", "-"} THEN i + 2 ELSE i + 1
    IN  IF Ch(s, i) \in {"e", "E"} /\ IsDigit(Ch(s, c)) THEN SpanEnd(s, c, "digit") ELSE i

\* where the fraction that starts at a ("." and digits) ends, after i - a
\* digits of integer part; a when there is none
FractionEnd(s, i, a) ==
    IF Ch(s, a) = "." /\ (a > i \/ IsDigit(Ch(s, a + 1)))
    THEN SpanEnd(s, a + 1, "digit")
    ELSE a

\* where the decimal literal that starts at i ends; i when there is none
DecimalEnd(s, i) ==
    IF FractionEnd(s, i, SpanEnd(s, i, "digit")) = i THEN i
    ELSE ExponentEnd(s, FractionEnd(s, i, SpanEnd(s, i, "digit")))

\* the number a string of digits writes
RECURSIVE NatOf(_)
NatOf(s) ==
    IF s = "" THEN 0
    ELSE 10 * NatOf(SubSeq(s, 1, Len(s) - 1))
             + (CHOOSE k \in 0..9 : Ch(DecimalDigits, k + 1) = Ch(s, Len(s)))

\* a decimal integer other than zero may not start with 0
IsInteger10(tok) ==
    SpanEnd(tok, 1, "digit") = Len(tok) + 1 /\ (Ch(tok, 1) = "0" => NatOf(tok) = 0)

\* the tokens that are number literals: decimal integers and floats
NumberTokens ==
    {tok \in STRING :
        /\ tok # ""
        /\ DecimalEnd(tok, 1) = Len(tok) + 1
        /\ (SpanEnd(tok, 1, "digit") = Len(tok) + 1 => IsInteger10(tok))}

\* the float of the digits int and frac scaled by ten to the exp
Scaled(int, frac, exp) ==
    IF exp >= Len(frac)
    THEN F(NatOf(int \o frac) * IntPow(10, exp - Len(frac)), 1)
    ELSE F(NatOf(int \o frac), IntPow(10, Len(frac) - exp))

\* the exponent written from b on ("" writes 0)
ExponentOf(tok, b) ==
    IF b > Len(tok) THEN 0
    ELSE IF Ch(tok, b + 1) = "-" THEN 0 - NatOf(SubSeq(tok, b + 2, Len(tok)))
    ELSE IF Ch(tok, b + 1) = "+" THEN NatOf(SubSeq(tok, b + 2, Len(tok)))
    ELSE NatOf(SubSeq(tok, b + 1, Len(tok)))

\* the float of a literal whose integer part ends before a and whose
\* fraction ends before b
FloatLit(tok, a, b) ==
    Scaled(SubSeq(tok, 1, a - 1), SubSeq(tok, a + 1, b - 1), ExponentOf(tok, b))

\* the value of a number literal
NumLit(tok) ==
    IF SpanEnd(tok, 1, "digit") = Len(tok) + 1 THEN I(NatOf(tok))
    ELSE FloatLit(tok, SpanEnd(tok, 1, "digit"),
                  FractionEnd(tok, 1, SpanEnd(tok, 1, "digit")))

StringTokens == {"'os'", "'3'"}

\* the identifiers that hold two adjacent underscores
DunderTokens == {"__import__", "__add__", "__self__", "__dict__", "__builtins__"}

Identifiers ==
    MathNames \cup DunderTokens \cup {"M", "abs", "round", "pow", "foo", "os", "real", "clear"}

\* str.strip(): the string without its leading and trailing whitespace
RECURSIVE LStrip(_)
LStrip(s) == IF s # <<>> /\ Head(s) \in Whitespace THEN LStrip(Tail(s)) ELSE s

RECURSIVE RStrip(_)
RStrip(s) ==
    IF s # <<>> /\ s[Len(s)] \in Whitespace THEN RStrip(SubSeq(s, 1, Len(s) - 1)) ELSE s

\* a variant of Strip that removes nothing
NotStripped(s) == s

\* str.strip()
Strip(s) == RStrip(LStrip(s))

\* "__" in s
HasDunder(s) == \E i \in 1..Len(s) : s[i] \in DunderTokens

\* the tokens the expression grammar sees: whitespace separates tokens
RECURSIVE Lex(_)
Lex(s) ==
    IF s = <<>> THEN <<>>
    ELSE IF Head(s) \in Whitespace THEN Lex(Tail(s))
    ELSE <<Head(s)>> \o Lex(Tail(s))

-----------------------------------------------------------------------------
(* Python values inside eval(): numbers, None, and the objects an          *)
(* expression can reach from the names it is given                         *)

VNum(x) == [k |-> "num", num |-> x, name |-> ""]

VNone == [k |-> "none", num |-> None, name |-> ""]

\* k: "mathfunc" a function of the math module, "pyfunc" one of the
\* degree wrappers, "builtin" abs / round / pow, "module", "dict", "str",
\* "notimpl" the NotImplemented object
VObj(k, name) == [k |-> k, num |-> None, name |-> name]

\* a bound method of the number recv
VMethod(name, recv) == [k |-> "method", num |-> recv, name |-> name]

\* a variant of OfMemory that binds M to None whatever the memory is
OfMemoryDropped(m) == VNone

\* allowed["M"] = memory
OfMemory(m) == IF m = None THEN VNone ELSE VNum(m)

EvOk(v, md) == [ok |-> TRUE, v |-> v, err |-> "", md |-> md]

EvRaise(e, md) == [ok |-> FALSE, v |-> VNone, err |-> e, md |-> md]

\* an outcome of the library as an outcome of an evaluation step
OfOutcome(o, md) == IF o.ok THEN EvOk(VNum(o.val), md) ELSE EvRaise(o.err, md)

-----------------------------------------------------------------------------
(* The parser of eval(): the expression grammar                            *)
(*   expr    ::= term (("+" | "-") term)*                                  *)
(*   term    ::= factor (("*" | "/" | "//" | "%") factor)*                 *)
(* (the two levels are parsed by precedence climbing)                      *)
(*   factor  ::= ("-" | "+") factor | power                                *)
(*   power   ::= postfix ["**" factor]                                     *)
(*   postfix ::= atom ("." NAME | "(" [expr ("," expr)*] ")")*             *)
(*   atom    ::= NUMBER | STRING | NAME | "(" expr ")"                     *)
(* (tuples and a trailing comma in a call are left out of the grammar).    *)
(* A parse returns the syntax tree and the position after it.              *)

POk(ast, i) == [ok |-> TRUE, ast |-> ast, i |-> i]

PFail == [ok |-> FALSE, ast |-> <<>>, i |-> 0]

At(t, i) == IF i <= Len(t) THEN t[i] ELSE "<end>"

\* the precedence of a binary operator below "**"; 0 for any other token
Prec(op) ==
    IF op \in {"+", "-"} THEN 1 ELSE IF op \in {"*", "/", "//", "%"} THEN 2 ELSE 0

\* the tree of "l op r" for two parses
Bin(op, l, r) ==
    IF l.ok /\ r.ok THEN POk(<<"bin", op, l.ast, r.ast>>, r.i) ELSE PFail

\* the tree of "op r"
Unary(op, r) == IF r.ok THEN POk(<<"unary", op, r.ast>>, r.i) ELSE PFail

\* the tree of "( e" once the ")" is found
Paren(t, e) ==
    IF e.ok /\ At(t, e.i) = ")" THEN POk(<<"paren", e.ast>>, e.i + 1) ELSE PFail

\* the tree of the call of f with the parsed arguments a
Call(f, a) == IF a.ok THEN POk(<<"call", f.ast, a.ast>>, a.i) ELSE PFail

RECURSIVE ParseExpr(_, _), Climb(_, _, _), ParseFactor(_, _), ParsePower(_, _)
RECURSIVE ParseTrailers(_, _), ParseArgs(_, _, _), ParseArgsRest(_, _, _), ParseAtom(_, _)

ParseExpr(t, i) == Climb(t, ParseFactor(t, i), 1)

\* the binary operators of precedence min and above that follow the parse l,
\* each level associating to the left
Climb(t, l, min) ==
    IF l.ok /\ Prec(At(t, l.i)) >= min
    THEN Climb(t, Bin(At(t, l.i), l,
                      Climb(t, ParseFactor(t, l.i + 1), Prec(At(t, l.i)) + 1)), min)
    ELSE l

ParseFactor(t, i) ==
    IF At(t, i) \in {"-", "+"} THEN Unary(At(t, i), ParseFactor(t, i + 1))
    ELSE ParsePower(t, ParseTrailers(t, ParseAtom(t, i)))

ParsePower(t, b) ==
    IF b.ok /\ At(t, b.i) = "**" THEN Bin("**", b, ParseFactor(t, b.i + 1)) ELSE b

\* the attribute accesses and calls that follow the parse r; a "." right
\* after a number is read as part of the number and is a syntax error here
ParseTrailers(t, r) ==
    IF ~r.ok THEN r
    ELSE IF At(t, r.i) = "." THEN
        (IF At(t, r.i + 1) \in Identifiers /\ r.ast[1] # "num"
         THEN ParseTrailers(t, POk(<<"attr", r.ast, At(t, r.i + 1)>>, r.i + 2))
         ELSE PFail)
    ELSE IF At(t, r.i) = "(" THEN ParseTrailers(t, Call(r, ParseArgs(t, <<>>, r.i + 1)))
    ELSE r

\* the arguments of a call, after its "(" : the list of their trees
ParseArgs(t, sofar, i) ==
    IF sofar = <<>> /\ At(t, i) = ")" THEN POk(<<>>, i + 1)
    ELSE ParseArgsRest(t, sofar, ParseExpr(t, i))

ParseArgsRest(t, sofar, a) ==
    IF ~a.ok THEN PFail
    ELSE IF At(t, a.i) = "," THEN ParseArgs(t, Append(sofar, a.ast), a.i + 1)
    ELSE IF At(t, a.i) = ")" THEN POk(Append(sofar, a.ast), a.i + 1)
    ELSE PFail

ParseAtom(t, i) ==
    IF At(t, i) \in NumberTokens THEN POk(<<"num", At(t, i)>>, i + 1)
    ELSE IF At(t, i) \in StringTokens THEN POk(<<"str", At(t, i)>>, i + 1)
    ELSE IF At(t, i) \in Identifiers THEN POk(<<"name", At(t, i)>>, i + 1)
    ELSE IF At(t, i) = "(" THEN Paren(t, ParseExpr(t, i + 1))
    ELSE PFail

\* the parse p when it covers all the tokens t
Whole(t, p) == IF p.ok /\ p.i = Len(t) + 1 THEN p ELSE PFail

\* compile(s, "eval"): the tree of the whole string, or a SyntaxError
Parse(s) == Whole(Lex(s), ParseExpr(Lex(s), 1))

-----------------------------------------------------------------------------
(* The evaluation of a syntax tree: eval(expr, safe_globals, {})           *)

\* math.asin, math.acos, math.atan (radians)
MathInverse(fn, x) ==
    IF x.cls = "nan" THEN Ok(NaN)
    ELSE IF x.cls = "inf" THEN (IF fn = "atan" THEN Ok(Approx) ELSE DomainError)
    ELSE IF x.cls # "fin" THEN Ok(Approx)
    ELSE IF fn # "atan" /\ Abs(x.n) > x.d THEN DomainError
    ELSE IF (fn = "acos" /\ x.n = x.d) \/ (fn # "acos" /\ x.n = 0) THEN Ok(F(0, 1))
    ELSE Ok(Approx)

\* math.floor(x)
MathFloor(x) ==
    IF x.cls = "fin" THEN Ok(I(FloorQ(x.n, x.d))) ELSE PyInt(x)

\* round(x): to the nearest integer, a tie to the even one
PyRound(x) ==
    IF x.cls # "fin" THEN PyInt(x)
    ELSE LET lo == FloorQ(x.n, x.d)
             twice == 2 * (x.n - lo * x.d)
         IN  Ok(I(IF twice < x.d \/ (twice = x.d /\ lo % 2 = 0) THEN lo ELSE lo + 1))

NotCallable == Raise("TypeError", "object is not callable")

BadArguments == Raise("TypeError", "bad argument count or type")

AllNumbers(args) == \A i \in 1..Len(args) : args[i].k = "num" /\ IsNum(args[i].num)

\* float(v) of an evaluated value
PyFloatOf(v) ==
    IF v.k = "num" /\ IsNum(v.num) THEN Ok(ToFloat(v.num))
    ELSE IF v.k = "str" /\ v.name = "'3'" THEN Ok(F(3, 1))
    ELSE IF v.k = "str" THEN Raise("ValueError", "could not convert string to float")
    ELSE Raise("TypeError", "float() argument must be a string or a real number")

\* math.pow(x, y): the power of the two floats
MathPow(x, y) ==
    LET r == PyPow(ToFloat(x), ToFloat(y))
    IN  IF ~r.ok \/ r.val.cls = "complex" THEN DomainError ELSE r

\* a function of the math module applied to evaluated arguments
ApplyMath(fn, args) ==
    IF ~AllNumbers(args) THEN BadArguments
    ELSE IF fn = "gcd" /\ Len(args) = 0 THEN Ok(I(0))
    ELSE IF fn = "pow" THEN
        (IF Len(args) = 2 THEN MathPow(args[1].num, args[2].num) ELSE BadArguments)
    ELSE IF fn = "log" /\ Len(args) = 2 THEN
        LET x == args[1].num
            base == args[2].num
        IN  IF ~MathLog(x).ok THEN MathLog(x)
            ELSE IF ~MathLog(base).ok THEN MathLog(base)
            ELSE IF base.cls = "fin" /\ base.n = base.d
            THEN Raise("ZeroDivisionError", "float division by zero")
            ELSE MathLogBase(x, base)
    ELSE IF fn = "gcd" /\ Len(args) = 2 THEN
        (IF args[1].num.ty = "int" /\ args[2].num.ty = "int"
         THEN Ok(I(Gcd(Abs(args[1].num.n), Abs(args[2].num.n))))
         ELSE BadArguments)
    ELSE IF Len(args) # 1 THEN BadArguments
    ELSE LET x == args[1].num
         IN  CASE fn = "sqrt" -> MathSqrt(x)
               [] fn = "log10" -> MathLog10(x)
               [] fn = "log" -> MathLog(x)
               [] fn \in {"sin", "cos", "tan"} -> TrigOfDegrees(fn, x)
               [] fn \in {"asin", "acos", "atan"} -> MathInverse(fn, x)
               [] fn \in {"sinh", "cosh", "tanh"} -> MathHyperbolic(fn, x)
               [] fn \in {"radians", "degrees"} -> MathScale(x)
               [] fn = "floor" -> MathFloor(x)
               [] fn = "gcd" -> IF x.ty = "int" THEN Ok(PyAbs(x)) ELSE BadArguments
               [] fn = "factorial" ->
                    IF x.ty # "int" THEN BadArguments
                    ELSE IF x.n < 0 THEN Raise("ValueError", "factorial() not defined for negative values")
                    ELSE Ok(I(Fact(x.n)))
               [] OTHER -> NotCallable

\* the degree wrappers _sin_deg ... _atan_deg, which look the math functions
\* up in the module dictionary md when they are called
ApplyDegreeWrapper(fn, args, md) ==
    IF Len(args) # 1 THEN BadArguments
    ELSE LET x == args[1]
         IN  IF fn \in {"asin", "acos"} /\ ~(x.k = "num" /\ IsNum(x.num)) THEN BadArguments
             ELSE IF fn \in {"asin", "acos"} /\ (Lt(x.num, I(-1)) \/ Gt(x.num, I(1)))
             THEN Raise("ValueError", "input must be in [-1, 1]")
             ELSE IF MathCall(md, fn, F(0, 1)).err = "AttributeError" THEN NoAttribute
             ELSE IF ~PyFloatOf(x).ok THEN PyFloatOf(x)
             ELSE MathCall(md, fn, PyFloatOf(x).val)

\* abs, round, pow
ApplyBuiltin(fn, args) ==
    IF ~AllNumbers(args) THEN BadArguments
    ELSE IF fn = "abs" /\ Len(args) = 1 THEN Ok(PyAbs(args[1].num))
    ELSE IF fn = "round" /\ Len(args) = 1 THEN PyRound(args[1].num)
    ELSE IF fn = "pow" /\ Len(args) = 2 THEN PyPow(args[1].num, args[2].num)
    ELSE BadArguments

\* f(args) for an evaluated callee f
Apply(f, args, md) ==
    IF f.k = "mathfunc" THEN OfOutcome(ApplyMath(f.name, args), md)
    ELSE IF f.k = "pyfunc" THEN OfOutcome(ApplyDegreeWrapper(f.name, args, md), md)
    ELSE IF f.k = "builtin" THEN OfOutcome(ApplyBuiltin(f.name, args), md)
    ELSE IF f.k = "method" /\ f.name = "__add__" THEN
        (IF Len(args) # 1 THEN EvRaise("TypeError", md)
         ELSE IF args[1].k = "num" /\ ~(f.num.ty = "int" /\ args[1].num.ty = "float")
         THEN EvOk(VNum(PyAdd(f.num, args[1].num)), md)
         ELSE EvOk(VObj("notimpl", "NotImplemented"), md))
    ELSE IF f.k = "dictmethod" /\ f.name = "clear" THEN
        (IF Len(args) # 0 THEN EvRaise("TypeError", md) ELSE EvOk(VNone, {}))
    ELSE EvRaise("TypeError", md)

\* obj.name.  Of the attributes of objects, the model has: real and __add__
\* of a number, __self__ of a built-in function, __dict__ and the members of
\* the math module, clear of its dictionary.
Attr(obj, name, md) ==
    IF obj.k = "num" /\ name = "real" /\ IsNum(obj.num) THEN EvOk(obj, md)
    ELSE IF obj.k = "num" /\ name = "__add__" /\ IsNum(obj.num)
    THEN EvOk(VMethod("__add__", obj.num), md)
    ELSE IF obj.k = "mathfunc" /\ name = "__self__" THEN EvOk(VObj("module", "math"), md)
    ELSE IF obj.k = "builtin" /\ name = "__self__" THEN EvOk(VObj("module", "builtins"), md)
    ELSE IF obj.k = "module" /\ obj.name = "math" /\ name = "__dict__"
    THEN EvOk(VObj("dict", "math"), md)
    ELSE IF obj.k = "module" /\ obj.name = "math" /\ name \in md THEN
        EvOk(IF name \in {"pi", "e"} THEN VNum(Approx) ELSE VObj("mathfunc", name), md)
    ELSE IF obj.k = "dict" /\ obj.name = "math" /\ name = "clear"
    THEN EvOk(VObj("dictmethod", "clear"), md)
    ELSE EvRaise("AttributeError", md)

\* left op right, for numbers (the operators of strings are not modelled)
BinOp(op, a, b, md) ==
    IF a.k # "num" \/ b.k # "num" THEN EvRaise("TypeError", md)
    ELSE LET x == a.num
             y == b.num
         IN  CASE op = "+" -> EvOk(VNum(PyAdd(x, y)), md)
               [] op = "-" -> EvOk(VNum(PySub(x, y)), md)
               [] op = "*" -> EvOk(VNum(PyMul(x, y)), md)
               [] op = "**" -> OfOutcome(PyPow(x, y), md)
               [] op = "/" -> OfOutcome(PyTrueDiv(x, y), md)
               [] op = "//" ->
                    IF IsZero(y) THEN EvRaise("ZeroDivisionError", md)
                    ELSE EvOk(VNum(FloorDivVal(x, y)), md)
               [] op = "%" ->
                    IF IsZero(y) THEN EvRaise("ZeroDivisionError", md)
                    ELSE EvOk(VNum(ModVal(x, y)), md)

\* op r for an evaluated operand
EvUnary(op, r) ==
    IF ~r.ok THEN r
    ELSE IF r.v.k # "num" THEN EvRaise("TypeError", r.md)
    ELSE EvOk(VNum(IF op = "-" THEN PyNeg(r.v.num) ELSE r.v.num), r.md)

\* o.name for an evaluated object
EvAttr(o, name) == IF ~o.ok THEN o ELSE Attr(o.v, name, o.md)

\* l op r for two evaluated operands
EvBinOp(op, l, r) == IF ~r.ok THEN r ELSE BinOp(op, l.v, r.v, r.md)

\* f(a) for an evaluated callee and evaluated arguments
EvApply(f, a) == IF ~a.ok THEN EvRaise(a.err, a.md) ELSE Apply(f.v, a.vs, a.md)

RECURSIVE Ev(_, _, _), EvBin(_, _, _), EvCall(_, _, _)
RECURSIVE EvArgs(_, _, _, _), EvArgsRest(_, _, _, _)

\* the value of the tree ast under the globals ns, the math module's
\* dictionary being md: the value or the exception, and the dictionary after
Ev(ast, ns, md) ==
    CASE ast[1] = "num" -> EvOk(VNum(NumLit(ast[2])), md)
      [] ast[1] = "str" -> EvOk(VObj("str", ast[2]), md)
      [] ast[1] = "paren" -> Ev(ast[2], ns, md)
      [] ast[1] = "name" ->
            IF ast[2] \in DOMAIN ns THEN EvOk(ns[ast[2]], md)
            ELSE IF ns["__builtins__"] = VNone THEN EvRaise("TypeError", md)
            ELSE EvRaise("NameError", md)
      [] ast[1] = "unary" -> EvUnary(ast[2], Ev(ast[3], ns, md))
      [] ast[1] = "bin" -> EvBin(ast, ns, Ev(ast[3], ns, md))
      [] ast[1] = "attr" -> EvAttr(Ev(ast[2], ns, md), ast[3])
      [] ast[1] = "call" -> EvCall(ast, ns, Ev(ast[2], ns, md))

\* the right operand is evaluated after the left one, in the state it left
EvBin(ast, ns, l) ==
    IF ~l.ok THEN l ELSE EvBinOp(ast[2], l, Ev(ast[4], ns, l.md))

\* the arguments are evaluated after the callee
EvCall(ast, ns, f) ==
    IF ~f.ok THEN f ELSE EvApply(f, EvArgs(ast[3], <<>>, ns, f.md))

\* the arguments of a call, left to right
EvArgs(asts, sofar, ns, md) ==
    IF asts = <<>> THEN [ok |-> TRUE, vs |-> sofar, err |-> "", md |-> md]
    ELSE EvArgsRest(asts, sofar, ns, Ev(Head(asts), ns, md))

EvArgsRest(asts, sofar, ns, r) ==
    IF ~r.ok THEN [ok |-> FALSE, vs |-> <<>>, err |-> r.err, md |-> r.md]
    ELSE EvArgs(Tail(asts), Append(sofar, r.v), ns, r.md)

\* the value of a parsed string: a SyntaxError before anything is evaluated
EvalTree(p, ns, md) == IF ~p.ok THEN EvRaise("SyntaxError", md) ELSE Ev(p.ast, ns, md)

\* eval(s, globals, {})
PyEval(s, ns, md) == EvalTree(Parse(s), ns, md)

-----------------------------------------------------------------------------
(* The evaluator of calculater.py                                          *)

\* an argument passed as expr: a string, None or an int
StrArg(toks) == [py |-> "str", truthy |-> toks # <<>>, toks |-> toks]

NoneArg == [py |-> "NoneType", truthy |-> FALSE, toks |-> <<>>]

IntArg(k) == [py |-> "int", truthy |-> k # 0, toks |-> <<>>]

DegreeWrappers == {"sin", "cos", "tan", "asin", "acos", "atan"}

\* the keys of the dictionary _safe_math_namespace returns
NamespaceKeys(md) ==
    (md \ DunderTokens) \cup {"abs", "round", "pi", "e", "M"} \cup DegreeWrappers

\* _safe_math_namespace(mem): the allowed names and what each is bound
\* to; reading math.pi or math.e raises AttributeError when it is not there
_safe_math_namespace(mem) ==
    IF ~({"pi", "e"} \subseteq mathDict)
    THEN [ok |-> FALSE, ns |-> <<>>, err |-> "AttributeError"]
    ELSE [ok |-> TRUE, err |-> "",
          ns |-> [name \in NamespaceKeys(mathDict) |->
                    IF name \in DegreeWrappers THEN VObj("pyfunc", name)
                    ELSE IF name = "M" THEN OfMemory(mem)
                    ELSE IF name \in {"pi", "e"} THEN VNum(Approx)
                    ELSE IF name \in {"abs", "round"} THEN VObj("builtin", name)
                    ELSE VObj("mathfunc", name)]]

\* what a call of an evaluator did: the number returned or the exception
\* raised (cause: the exception it wraps), the math module's dictionary after
\* the call, whether the namespace was built and whether eval() ran
Returned(v, md) ==
    [ok |-> TRUE, val |-> v, err |-> "", msg |-> "", cause |-> "", md |-> md,
     built |-> TRUE, evald |-> TRUE]

Failed(e, m, cause, md, built, evald) ==
    [ok |-> FALSE, val |-> None, err |-> e, msg |-> m, cause |-> cause, md |-> md,
     built |-> built, evald |-> evald]

\* the dictionary given to eval() as its globals
SafeGlobals(ns) ==
    [name \in DOMAIN ns \cup {"__builtins__"} |->
        IF name \in DOMAIN ns THEN ns[name] ELSE VNone]

\* the end of both evaluators, for a result that is neither an int nor a
\* float: float(result), or the ValueError that replaces its exception
FloatOrNonNumeric(f, md) ==
    IF f.ok THEN Returned(f.val, md)
    ELSE Failed("ValueError", "Expression did not evaluate to a numeric result",
                "", md, TRUE, TRUE)

\* evaluate_expression after eval(): the exception wrapped in a ValueError,
\* an int or a float returned as it is, anything else through float()
ResultOfEval(r) ==
    IF ~r.ok
    THEN Failed("ValueError", "Error evaluating expression", r.err, r.md, TRUE, TRUE)
    ELSE IF r.v.k = "num" /\ IsNum(r.v.num) THEN Returned(r.v.num, r.md)
    ELSE FloatOrNonNumeric(PyFloatOf(r.v), r.md)

\* evaluate_expression from the construction of the namespace on; an exception
\* of the construction is outside the try and leaves as it is
EvalInNamespace(expr, built) ==
    IF ~built.ok THEN Failed(built.err, "", "", mathDict, FALSE, FALSE)
    ELSE ResultOfEval(PyEval(expr.toks, SafeGlobals(built.ns), mathDict))

evaluate_expression(expr, mem) ==
    IF expr.py # "str" \/ Strip(expr.toks) = <<>>
    THEN Failed("ValueError", "Empty expression", "", mathDict, FALSE, FALSE)
    ELSE EvalInNamespace(expr, _safe_math_namespace(mem))

-----------------------------------------------------------------------------
(* The evaluator of smart_calculator_gui.py                                *)

GuiNamespaceKeys(md) ==
    (md \ DunderTokens) \cup {"abs", "round", "pow", "pi", "e"} \cup DegreeWrappers

\* _safe_math_namespace() of smart_calculator_gui.py
gui_safe_math_namespace ==
    IF ~({"pi", "e"} \subseteq mathDict)
    THEN [ok |-> FALSE, ns |-> <<>>, err |-> "AttributeError"]
    ELSE [ok |-> TRUE, err |-> "",
          ns |-> [name \in GuiNamespaceKeys(mathDict) |->
                    IF name \in DegreeWrappers THEN VObj("pyfunc", name)
                    ELSE IF name \in {"pi", "e"} THEN VNum(Approx)
                    ELSE IF name \in {"abs", "round", "pow"} THEN VObj("builtin", name)
                    ELSE VObj("mathfunc", name)]]

\* evaluate_expression_safe after eval(): the result is returned as a float
ResultOfEvalSafe(r) ==
    IF ~r.ok
    THEN Failed("ValueError", "Error evaluating expression", r.err, r.md, TRUE, TRUE)
    ELSE FloatOrNonNumeric(PyFloatOf(r.v), r.md)

\* evaluate_expression_safe from the construction of the namespace on: the
\* test for "__" comes after the construction and before eval()
EvalSafeInNamespace(expr, built) ==
    IF ~built.ok THEN Failed(built.err, "", "", mathDict, FALSE, FALSE)
    ELSE IF HasDunder(expr.toks)
    THEN Failed("ValueError", "Invalid expression", "", mathDict, TRUE, FALSE)
    ELSE ResultOfEvalSafe(PyEval(expr.toks, SafeGlobals(built.ns), mathDict))

evaluate_expression_safe(expr) ==
    IF ~expr.truthy
    THEN Failed("ValueError", "Empty expression", "", mathDict, FALSE, FALSE)
    ELSE IF expr.py # "str"
    THEN Failed("AttributeError", "no attribute 'strip'", "", mathDict, FALSE, FALSE)
    ELSE IF Strip(expr.toks) = <<>>
    THEN Failed("ValueError", "Empty expression", "", mathDict, FALSE, FALSE)
    ELSE EvalSafeInNamespace(expr, gui_safe_math_namespace)

-----------------------------------------------------------------------------
(* smart_calculator_gui.py: parse_smart_expression. A text is a string,    *)
(* that is the sequence of its characters, and each re.sub is computed as  *)
(* the regular expression engine computes it: from left to right, the      *)
(* leftmost match replaced and the search resumed after it.                *)

\* the literal w is in s at i
LitAt(s, i, w) == i + Len(w) - 1 <= Len(s) /\ SubSeq(s, i, i + Len(w) - 1) = w

\* \b between the characters i - 1 and i of s
Boundary(s, i) == IsWordChar(Ch(s, i - 1)) # IsWordChar(Ch(s, i))

UpperCase == "ABCDEFGHIJKLMNOPQRSTUVWXYZ"

LowerCase == "abcdefghijklmnopqrstuvwxyz"

\* c.lower()
LowerChar(c) ==
    IF \E k \in 1..Len(UpperCase) : Ch(UpperCase, k) = c
    THEN Ch(LowerCase, CHOOSE k \in 1..Len(UpperCase) : Ch(UpperCase, k) = c)
    ELSE c

\* s.lower(): each character lowered, the two halves of s one after the other
RECURSIVE StrLower(_)
StrLower(s) ==
    IF Len(s) <= 1 THEN LowerChar(s)
    ELSE StrLower(SubSeq(s, 1, Len(s) \div 2)) \o StrLower(SubSeq(s, Len(s) \div 2 + 1, Len(s)))

\* s.strip() for a text
RECURSIVE StripText(_)
StripText(s) ==
    IF Ch(s, 1) \in Whitespace THEN StripText(SubSeq(s, 2, Len(s)))
    ELSE IF Ch(s, Len(s)) \in Whitespace THEN StripText(SubSeq(s, 1, Len(s) - 1))
    ELSE s

\* kw\s+([\w\.\(\)]+)\s+(alts)\s+([\w\.\(\)]+) replaced by (\1 op \2), or by
\* (\2 op \1) when swap
Phrase(kw, alts, op, swap) ==
    [kind |-> "phrase", kw |-> kw, alts |-> alts, op |-> op, swap |-> swap,
     bounded |-> FALSE, repl |-> ""]

\* (alts) replaced by repl, between two \b when bounded
Literal(alts, bounded, repl) ==
    [kind |-> "literal", kw |-> "", alts |-> alts, op |-> "", swap |-> FALSE,
     bounded |-> bounded, repl |-> repl]

\* \bfn\s+([-\w\.\(\)]+) replaced by fn(\1)
FuncCall(fn) ==
    [kind |-> "func", kw |-> fn, alts |-> <<>>, op |-> "", swap |-> FALSE,
     bounded |-> TRUE, repl |-> ""]

\* \s+ replaced by one space
Spaces ==
    [kind |-> "spaces", kw |-> "", alts |-> <<>>, op |-> "", swap |-> FALSE,
     bounded |-> FALSE, repl |-> " "]

NoMatch == [ok |-> FALSE, end |-> 0, repl |-> ""]

Match(end, repl) == [ok |-> TRUE, end |-> end, repl |-> repl]

\* the first of the alternatives that is in s at i (0 when none is)
AltAt(s, i, alts) ==
    IF \E k \in 1..Len(alts) : LitAt(s, i, alts[k])
    THEN CHOOSE k \in 1..Len(alts) :
            LitAt(s, i, alts[k]) /\ \A j \in 1..(k - 1) : ~LitAt(s, i, alts[j])
    ELSE 0

\* the two operands of a phrase, a from b to c - 1 and f to g - 1, in the
\* parentheses of the replacement
PhraseText(s, r, b, c, f, g) ==
    IF r.swap
    THEN "(" \o SubSeq(s, f, g - 1) \o " " \o r.op \o " " \o SubSeq(s, b, c - 1) \o ")"
    ELSE "(" \o SubSeq(s, b, c - 1) \o " " \o r.op \o " " \o SubSeq(s, f, g - 1) \o ")"

\* a phrase at i: each + is greedy, and no shorter run can match, since the
\* character that ends a run is in no class that may follow it
PhraseAt(s, i, r) ==
    LET b == SpanEnd(s, i + Len(r.kw), "space")
        c == SpanEnd(s, b, "operand")
        d == SpanEnd(s, c, "space")
        k == AltAt(s, d, r.alts)
        e == d + Len(r.alts[k])
        f == SpanEnd(s, e, "space")
        g == SpanEnd(s, f, "operand")
    IN  IF /\ LitAt(s, i, r.kw)
           /\ b > i + Len(r.kw)
           /\ c > b
           /\ d > c
           /\ k > 0
           /\ f > e
           /\ g > f
        THEN Match(g, PhraseText(s, r, b, c, f, g))
        ELSE NoMatch

\* an alternative at i, between two \b when the rule has them
LiteralAt(s, i, r) ==
    LET k == AltAt(s, i, r.alts)
    IN  IF k > 0 /\ (r.bounded => (Boundary(s, i) /\ Boundary(s, i + Len(r.alts[k]))))
        THEN Match(i + Len(r.alts[k]), r.repl)
        ELSE NoMatch

\* a function name at i, whitespace, and the value made a call's argument
FuncAt(s, i, r) ==
    LET b == SpanEnd(s, i + Len(r.kw), "space")
        c == SpanEnd(s, b, "value")
    IN  IF Boundary(s, i) /\ LitAt(s, i, r.kw) /\ b > i + Len(r.kw) /\ c > b
        THEN Match(c, r.kw \o "(" \o SubSeq(s, b, c - 1) \o ")")
        ELSE NoMatch

\* a run of whitespace at i
SpacesAt(s, i, r) ==
    IF SpanEnd(s, i, "space") > i THEN Match(SpanEnd(s, i, "space"), r.repl) ELSE NoMatch

\* the match of the pattern of r that starts at i
MatchAt(s, i, r) ==
    CASE r.kind = "phrase" -> PhraseAt(s, i, r)
      [] r.kind = "literal" -> LiteralAt(s, i, r)
      [] r.kind = "func" -> FuncAt(s, i, r)
      [] r.kind = "spaces" -> SpacesAt(s, i, r)

\* where the pattern of r matches in s, from i on
MatchesFrom(s, i, r) == {j \in i..Len(s) : MatchAt(s, j, r).ok}

\* re.sub(pattern, repl, s) from i on: the leftmost match is replaced and the
\* search goes on after it, the characters before it are kept
RECURSIVE Sub(_, _, _)
SubAt(s, i, r, j) ==
    SubSeq(s, i, j - 1) \o MatchAt(s, j, r).repl \o Sub(s, MatchAt(s, j, r).end, r)

SubIn(s, i, r, found) ==
    IF found = {} THEN SubSeq(s, i, Len(s))
    ELSE SubAt(s, i, r, CHOOSE j \in found : \A h \in found : j <= h)

Sub(s, i, r) == SubIn(s, i, r, MatchesFrom(s, i, r))

\* subtract X from Y -> (Y - X)
SubtractFrom == Phrase("subtract", <<"from">>, "-", TRUE)

\* the other phrases, the filler words and "power X to Y"
Phrases ==
    <<SubtractFrom,
      Phrase("add", <<"and">>, "+", FALSE),
      Phrase("multiply", <<"by">>, "*", FALSE),
      Phrase("divide", <<"by">>, "/", FALSE),
      Literal(<<"what is", "calculate", "compute", "please", "=">>, TRUE, ""),
      Phrase("power", <<"to", "by", "and">>, "**", FALSE)>>

\* word_map, in the order of the dictionary
word_map ==
    <<Literal(<<"and">>, TRUE, "+"),
      Literal(<<"plus">>, TRUE, "+"),
      Literal(<<"minus">>, TRUE, "-"),
      Literal(<<"times">>, TRUE, "*"),
      Literal(<<"multiplied by">>, TRUE, "*"),
      Literal(<<"over">>, TRUE, "/"),
      Literal(<<"divided by">>, TRUE, "/"),
      Literal(<<"divide">>, TRUE, "/"),
      Literal(<<"add">>, TRUE, "+"),
      Literal(<<"subtract">>, TRUE, "-"),
      Literal(<<"power">>, TRUE, "**"),
      Literal(<<"percent">>, TRUE, "%"),
      Literal(<<"percent of">>, TRUE, "%")>>

func_names == <<"sin", "cos", "tan", "asin", "acos", "atan", "sqrt", "log", "log10">>

\* the substitutions that rewrite words and "^"
Patterns ==
    Phrases \o word_map \o [k \in 1..Len(func_names) |-> FuncCall(func_names[k])]
        \o <<Literal(<<"^">>, FALSE, "**")>>

\* a variant of Rewrites that leaves the whitespace as it is
RewritesKeepingWhitespace == Patterns

\* every substitution of parse_smart_expression, in the order it is made
Rewrites == Patterns \o <<Spaces>>

\* s after the substitutions k, k + 1, ...: none of them changes an empty s
RECURSIVE RewriteFrom(_, _)
RewriteFrom(s, k) ==
    IF s = "" \/ k > Len(Rewrites) THEN s ELSE RewriteFrom(Sub(s, 1, Rewrites[k]), k + 1)

\* what is passed as text: a string
TextArg(s) == [py |-> "str", truthy |-> s # "", text |-> s]

\* return s or original
OrOriginal(s, original) == IF s = "" THEN original ELSE s

\* parse_smart_expression for a string whose strip() is original
ParseStripped(original) ==
    IF original = "" THEN ""
    ELSE OrOriginal(StripText(RewriteFrom(StrLower(original), 1)), original)

parse_smart_expression(text) ==
    IF text.py # "str" THEN "" ELSE ParseStripped(StripText(text.text))

-----------------------------------------------------------------------------
(* The text of an expression as eval() reads it: the tokens of the text,   *)
(* whitespace kept as tokens of one character                              *)

\* where the string literal that starts at i ends (i when it is not closed)
QuoteEnd(s, i) ==
    IF \E j \in (i + 1)..Len(s) : Ch(s, j) = "'"
    THEN 1 + CHOOSE j \in (i + 1)..Len(s) :
                Ch(s, j) = "'" /\ \A h \in (i + 1)..(j - 1) : Ch(s, h) # "'"
    ELSE i

\* where the token that starts at i ends: the index after it
TokenEnd(s, i) ==
    IF DecimalEnd(s, i) > i THEN DecimalEnd(s, i)
    ELSE IF IsWordChar(Ch(s, i)) THEN SpanEnd(s, i, "word")
    ELSE IF LitAt(s, i, "**") \/ LitAt(s, i, "//") THEN i + 2
    ELSE IF Ch(s, i) = "'" /\ QuoteEnd(s, i) > i THEN QuoteEnd(s, i)
    ELSE i + 1

\* the tokens of s from i on
RECURSIVE TokensFrom(_, _)
TokensFrom(s, i) ==
    IF i > Len(s) THEN <<>>
    ELSE <<SubSeq(s, i, TokenEnd(s, i) - 1)>> \o TokensFrom(s, TokenEnd(s, i))

\* the string s passed as an expression
ExprOfText(s) == StrArg(TokensFrom(s, 1))

-----------------------------------------------------------------------------
(* The text calculate() shows for a result: str(int(result)) for a whole   *)
(* number, else str(round(result, 12)) without its trailing zeros and      *)
(* without a trailing "."                                                  *)

\* str(k) for k >= 0
RECURSIVE NatStr(_)
NatStr(k) ==
    IF k < 10 THEN Ch(DecimalDigits, k + 1)
    ELSE NatStr(k \div 10) \o Ch(DecimalDigits, (k % 10) + 1)

\* the first k digits of r/d after the point, for 0 <= r < d
RECURSIVE FracDigits(_, _, _)
FracDigits(r, d, k) ==
    IF k = 0 THEN ""
    ELSE Ch(DecimalDigits, ((10 * r) \div d) + 1) \o FracDigits((10 * r) % d, d, k - 1)

\* what is left of r/d after its first k digits, as a numerator over d
RECURSIVE FracRem(_, _, _)
FracRem(r, d, k) == IF k = 0 THEN r ELSE FracRem((10 * r) % d, d, k - 1)

\* the digits of the number that follows the one the digits s write
RECURSIVE Succ10(_)
Succ10(s) ==
    IF s = "" THEN "1"
    ELSE IF Ch(s, Len(s)) = "9" THEN Succ10(SubSeq(s, 1, Len(s) - 1)) \o "0"
    ELSE SubSeq(s, 1, Len(s) - 1) \o NatStr(NatOf(Ch(s, Len(s))) + 1)

\* s.rstrip(c)
RECURSIVE RStripChar(_, _)
RStripChar(s, c) ==
    IF s # "" /\ Ch(s, Len(s)) = c THEN RStripChar(SubSeq(s, 1, Len(s) - 1), c) ELSE s

\* the places round() keeps
RoundPlaces == 12

\* round(n/d, 12) for n >= 0, to the even neighbour on a tie: its digits, the
\* last twelve of them after the point
RoundedDigits(digits, rem, d) ==
    IF 2 * rem > d \/ (2 * rem = d /\ NatOf(Ch(digits, Len(digits))) % 2 = 1)
    THEN Succ10(digits)
    ELSE digits

Rounded(n, d) ==
    RoundedDigits(NatStr(n \div d) \o FracDigits(n % d, d, RoundPlaces),
                  FracRem(n % d, d, RoundPlaces), d)

\* the index of the first digit of s that is not 0 (Len(s) + 1 when none is)
FirstNonZero(s) ==
    IF \E j \in 1..Len(s) : Ch(s, j) # "0"
    THEN CHOOSE j \in 1..Len(s) : Ch(s, j) # "0" /\ \A h \in 1..(j - 1) : Ch(s, h) = "0"
    ELSE Len(s) + 1

\* repr of a float below 0.0001 whose digits after the point are frac, the
\* first of them that is not 0 at j: d.ddde-XX
Scientific(frac, j) ==
    Ch(frac, j)
        \o (IF RStripChar(frac, "0") = SubSeq(frac, 1, j) THEN ""
            ELSE "." \o SubSeq(frac, j + 1, Len(RStripChar(frac, "0"))))
        \o "e-" \o (IF j < 10 THEN "0" ELSE "") \o NatStr(j)

\* repr of the float whose digits are int before the point and frac after
Repr(int, frac) ==
    IF int = "0" /\ FirstNonZero(frac) > 4 /\ FirstNonZero(frac) <= Len(frac)
    THEN Scientific(frac, FirstNonZero(frac))
    ELSE IF RStripChar(frac, "0") = "" THEN int \o ".0"
    ELSE int \o "." \o RStripChar(frac, "0")

\* str(round(x, 12)) for a float x >= 0 that is n/d
StrRound(t) == Repr(SubSeq(t, 1, Len(t) - RoundPlaces), SubSeq(t, Len(t) - RoundPlaces + 1, Len(t)))

\* the text shown for the float result; the digits of a float that is only
\* known approximately are not computed
DisplayOf(result) ==
    IF result.cls = "nan" THEN "nan"
    ELSE IF result.cls = "inf" THEN (IF result.n < 0 THEN "-inf" ELSE "inf")
    ELSE IF result.cls # "fin" THEN "float"
    ELSE IF result.d = 1
    THEN (IF result.n < 0 THEN "-" ELSE "") \o NatStr(Abs(result.n))
    ELSE RStripChar(RStripChar((IF result.n < 0 THEN "-" ELSE "")
                                   \o StrRound(Rounded(Abs(result.n), result.d)),
                               "0"), ".")

-----------------------------------------------------------------------------
(* smart_calculator_gui.py: SmartCalculatorApp                             *)

\* parsed.replace("^", "**")
CaretToPower(s) == Sub(s, 1, Literal(<<"^">>, FALSE, "**"))

\* calculate() up to the result: the parsed text evaluated
Evaluated(expr_in) ==
    evaluate_expression_safe(ExprOfText(CaretToPower(parse_smart_expression(TextArg(expr_in)))))

\* f"Error: {exc}" (of the message of a wrapped exception, only the part
\* before the text of the exception it wraps)
ErrorText(r) == "Error: " \o r.msg

\* f"{expr_in} = {display}"
HistLine(expr_in, display) == expr_in \o " = " \o display

-----------------------------------------------------------------------------
(* Menu and input helpers                                                  *)

UNARY_OPS ==
    ("7" :> [name |-> "square_root", func |-> "square_root"]) @@
    ("9" :> [name |-> "log10", func |-> "log10"]) @@
    ("10" :> [name |-> "ln", func |-> "natural_log"]) @@
    ("11" :> [name |-> "sin (deg)", func |-> "sine"]) @@
    ("12" :> [name |-> "cos (deg)", func |-> "cosine"]) @@
    ("13" :> [name |-> "tan (deg)", func |-> "tangent"]) @@
    ("14" :> [name |-> "factorial", func |-> "factorial"]) @@
    ("15" :> [name |-> "abs", func |-> "absolute"]) @@
    ("16" :> [name |-> "10^x", func |-> "power_of_ten"]) @@
    ("17" :> [name |-> "to radians", func |-> "to_radians"]) @@
    ("18" :> [name |-> "to degrees", func |-> "to_degrees"]) @@
    ("19" :> [name |-> "sign", func |-> "sign"]) @@
    ("25" :> [name |-> "sinh", func |-> "sinh"]) @@
    ("26" :> [name |-> "cosh", func |-> "cosh"]) @@
    ("27" :> [name |-> "tanh", func |-> "tanh"]) @@
    ("28" :> [name |-> "asin (return deg)", func |-> "asin"]) @@
    ("29" :> [name |-> "acos (return deg)", func |-> "acos"]) @@
    ("30" :> [name |-> "atan (return deg)", func |-> "atan"])

BINARY_OPS ==
    ("1" :> [name |-> "add", func |-> "add"]) @@
    ("2" :> [name |-> "subtract", func |-> "subtract"]) @@
    ("3" :> [name |-> "multiply", func |-> "multiply"]) @@
    ("4" :> [name |-> "divide", func |-> "divide"]) @@
    ("5" :> [name |-> "exponent", func |-> "exponent"]) @@
    ("6" :> [name |-> "modulus", func |-> "modulus"]) @@
    ("8" :> [name |-> "floor_divide", func |-> "floor_divide"]) @@
    ("21" :> [name |-> "percentage", func |-> "percentage"]) @@
    ("22" :> [name |-> "gcd", func |-> "gcd"]) @@
    ("23" :> [name |-> "lcm", func |-> "lcm"]) @@
    ("24" :> [name |-> "log base", func |-> "log_custom"])

\* func(x) for the callable an entry of UNARY_OPS holds
CallUnary(func, x) ==
    CASE func = "square_root" -> square_root(x)
      [] func = "log10" -> log10(x)
      [] func = "natural_log" -> natural_log(x)
      [] func = "sine" -> sine(x)
      [] func = "cosine" -> cosine(x)
      [] func = "tangent" -> tangent(x)
      [] func = "factorial" -> factorial(x)
      [] func = "absolute" -> absolute(x)
      [] func = "power_of_ten" -> power_of_ten(x)
      [] func = "to_radians" -> to_radians(x)
      [] func = "to_degrees" -> to_degrees(x)
      [] func = "sign" -> sign(x)
      [] func = "sinh" -> sinh(x)
      [] func = "cosh" -> cosh(x)
      [] func = "tanh" -> tanh(x)
      [] func = "asin" -> asin(x)
      [] func = "acos" -> acos(x)
      [] func = "atan" -> atan(x)

\* func(a, b) for the callable an entry of BINARY_OPS holds
CallBinary(func, a, b) ==
    CASE func = "add" -> add(a, b)
      [] func = "subtract" -> subtract(a, b)
      [] func = "multiply" -> multiply(a, b)
      [] func = "divide" -> divide(a, b)
      [] func = "exponent" -> exponent(a, b)
      [] func = "modulus" -> modulus(a, b)
      [] func = "floor_divide" -> floor_divide(a, b)
      [] func = "percentage" -> percentage(a, b)
      [] func = "gcd" -> gcd(a, b)
      [] func = "lcm" -> lcm(a, b)
      [] func = "log_custom" -> log_custom(a, b)

\* the lines a user types when asked for a number
RawInputs == {"2", "0", "-1", "0.5", "2.0", "nan", "inf", "abc", "1j", ""}

\* int(raw)
PyIntOfRaw(raw) ==
    CASE raw = "2" -> Ok(I(2))
      [] raw = "0" -> Ok(I(0))
      [] raw = "-1" -> Ok(I(-1))
      [] OTHER -> Raise("ValueError", "invalid literal for int()")

\* float(raw)
PyFloatOfRaw(raw) ==
    CASE raw = "2" -> Ok(F(2, 1))
      [] raw = "0" -> Ok(F(0, 1))
      [] raw = "-1" -> Ok(F(-1, 1))
      [] raw = "0.5" -> Ok(F(1, 2))
      [] raw = "2.0" -> Ok(F(2, 1))
      [] raw = "nan" -> Ok(NaN)
      [] raw = "inf" -> Ok(PInf)
      [] OTHER -> Raise("ValueError", "could not convert string to float")

\* raw.strip().lower().endswith("j")
EndsWithJ(raw) == raw \in {"1j"}

_parse_number(raw) ==
    IF ~EndsWithJ(raw) /\ PyIntOfRaw(raw).ok THEN PyIntOfRaw(raw)
    ELSE IF PyFloatOfRaw(raw).ok THEN PyFloatOfRaw(raw)
    ELSE Raise("ValueError", "Invalid number")

-----------------------------------------------------------------------------
(* class Calculator                                                        *)

\* an entry of the history, f"{name}({args}) = {result}" or
\* f"eval({expr}) = {result}": the text's parts
Entry(name, args, expr, result) ==
    [name |-> name, args |-> args, expr |-> expr, result |-> result]

\* how a handler ended: it returned after a result ("ok"), it returned after
\* printing an error it caught itself ("caught"), or it raised err ("raised");
\* with the entries it appended, the memory and the math module it left
Handled(status, err, appended, mem, md) ==
    [status |-> status, err |-> err, appended |-> appended, mem |-> mem, md |-> md]

Raises(err) == Handled("raised", err, <<>>, memory, mathDict)

\* a variant of Computed that leaves the memory as it was
ComputedKeepingMemory(entry) == Handled("ok", "", <<entry>>, memory, mathDict)

Computed(entry) == Handled("ok", "", <<entry>>, entry.result, mathDict)

\* the number of entries 'h' prints
HistoryDisplayLimit == 50

\* a variant of _show_history: self.history[:50], the oldest entries
_show_history_oldest ==
    IF Len(history) <= HistoryDisplayLimit THEN history
    ELSE SubSeq(history, 1, HistoryDisplayLimit)

\* self.history[-50:]
_show_history ==
    IF Len(history) <= HistoryDisplayLimit THEN history
    ELSE SubSeq(history, Len(history) - HistoryDisplayLimit + 1, Len(history))

\* the end of a handler: the result printed, the entry appended and the
\* memory set, or the exception of the operation
Record(name, args, result) ==
    IF ~result.ok THEN Raises(result.err)
    ELSE Computed(Entry(name, args, <<>>, result.val))

UnaryOf(op, x) ==
    IF ~x.ok THEN Raises(x.err)
    ELSE Record(op.name, <<x.val>>, CallUnary(op.func, x.val))

_handle_unary(choice, raw) == UnaryOf(UNARY_OPS[choice], _parse_number(raw))

BinaryOf(op, a, b) ==
    IF ~a.ok THEN Raises(a.err)
    ELSE IF ~b.ok THEN Raises(b.err)
    ELSE Record(op.name, <<a.val, b.val>>, CallBinary(op.func, a.val, b.val))

_handle_binary(choice, raw1, raw2) ==
    BinaryOf(BINARY_OPS[choice], _parse_number(raw1), _parse_number(raw2))

ClampOf(x, mn, mx) ==
    IF ~x.ok THEN Raises(x.err)
    ELSE IF ~mn.ok THEN Raises(mn.err)
    ELSE IF ~mx.ok THEN Raises(mx.err)
    ELSE Record("clamp", <<x.val, mn.val, mx.val>>, clamp(x.val, mn.val, mx.val))

_handle_clamp(raw, raw_min, raw_max) ==
    ClampOf(_parse_number(raw), _parse_number(raw_min), _parse_number(raw_max))

\* the handler catches every exception of the evaluation itself
EvalOf(expr, result) ==
    IF ~result.ok THEN Handled("caught", result.err, <<>>, memory, result.md)
    ELSE Handled("ok", "", <<Entry("eval", <<>>, expr, result.val)>>,
                 result.val, result.md)

_handle_eval(expr) == EvalOf(expr, evaluate_expression(StrArg(expr), memory))

\* the lines a user can type at the menu prompt, stripped
Choices ==
    {"1", "2", "3", "4", "5", "6", "7", "8", "9", "10", "11", "12", "13", "14",
     "15", "16", "17", "18", "19", "20", "21", "22", "23", "24", "25", "26",
     "27", "28", "29", "30", "31", "32", "", "h", "H", "m", "M", "0", "33", "x"}

\* choice.lower()
Lower(choice) == IF choice = "H" THEN "h" ELSE IF choice = "M" THEN "m" ELSE choice

\* a variant of Dispatch without the test for "20"
DispatchWithoutClamp(choice) ==
    IF choice = "" THEN "blank"
    ELSE IF Lower(choice) = "h" THEN "history"
    ELSE IF Lower(choice) = "m" THEN "memory"
    ELSE IF choice = "31" THEN "exit"
    ELSE IF choice \in DOMAIN UNARY_OPS THEN "unary"
    ELSE IF choice \in DOMAIN BINARY_OPS THEN "binary"
    ELSE IF choice = "32" THEN "eval"
    ELSE "unknown"

\* the branch of the loop of Calculator.run a choice takes, the tests being
\* made in the order of the code
Dispatch(choice) ==
    IF choice = "" THEN "blank"
    ELSE IF Lower(choice) = "h" THEN "history"
    ELSE IF Lower(choice) = "m" THEN "memory"
    ELSE IF choice = "31" THEN "exit"
    ELSE IF choice \in DOMAIN UNARY_OPS THEN "unary"
    ELSE IF choice \in DOMAIN BINARY_OPS THEN "binary"
    ELSE IF choice = "32" THEN "eval"
    ELSE IF choice = "20" THEN "clamp"
    ELSE "unknown"

\* the exceptions the model's operations raise; all derive from Exception
ExceptionNames ==
    {"ValueError", "ZeroDivisionError", "OverflowError", "TypeError",
     "AttributeError", "NameError", "SyntaxError"}

\* a variant of ExceptException: the clause "except ValueError"
ExceptValueError(err) == err = "ValueError"

\* except Exception: does the clause of Calculator.run catch err
ExceptException(err) == err \in ExceptionNames

\* what the session explored types: at the menu, for a number, for an
\* expression
TypedChoices == {"", "h", "H", "m", "31", "9", "14", "4", "20", "32", "0"}

TypedNumbers == {"2", "0", "abc"}

TypedExprs ==
    {<<"2", " ", "+", " ", "2">>,
     <<"M", " ", "*", " ", "3">>,
     <<"1", " ", "/", " ", "0">>,
     <<"foo">>,
     <<>>,
     <<"M">>,
     <<"(", "1", ")", ".", "__add__", "(", "2", ")">>,
     <<"sqrt", ".", "__self__", ".", "__dict__", ".", "clear", "(", ")">>}

\* the bound on the number of answers to the menu prompt
MaxSteps == 3

NoStep == [choice |-> "", status |-> "none", err |-> "", result |-> None]

\* the loop is at the menu prompt, and the user answers it
AtMenu == pc = "menu" /\ steps < MaxSteps

\* one turn of the loop that does not run a handler
Turn(choice, where) ==
    /\ steps' = steps + 1
    /\ pc' = where
    /\ last' = [choice |-> choice, status |-> "none", err |-> "", result |-> None]
    /\ UNCHANGED <<history, memory, mathDict, call, ret, log>>
    /\ UNCHANGED <<input_var, result_var, history_box>>

\* one turn of the loop that runs a handler inside try ... except Exception
TurnHandled(choice, o) ==
    /\ steps' = steps + 1
    /\ history' = history \o o.appended
    /\ memory' = o.mem
    /\ mathDict' = o.md
    /\ pc' = IF o.status = "raised" /\ ~ExceptException(o.err) THEN "raised" ELSE "menu"
    /\ last' = [choice |-> choice, status |-> IF o.status = "ok" THEN "ok" ELSE "error",
                err |-> o.err, result |-> IF o.status = "ok" THEN o.mem ELSE None]
    /\ UNCHANGED <<shown, call, ret, log, input_var, result_var, history_box>>

RunBlank ==
    /\ AtMenu
    /\ \E choice \in TypedChoices :
           /\ Dispatch(choice) = "blank"
           /\ Turn(choice, "menu")
           /\ UNCHANGED shown

RunShowHistory ==
    /\ AtMenu
    /\ \E choice \in TypedChoices :
           /\ Dispatch(choice) = "history"
           /\ Turn(choice, "menu")
           /\ shown' = _show_history

RunRecallMemory ==
    /\ AtMenu
    /\ \E choice \in TypedChoices :
           /\ Dispatch(choice) = "memory"
           /\ Turn(choice, "menu")
           /\ UNCHANGED shown

RunExit ==
    /\ AtMenu
    /\ \E choice \in TypedChoices :
           /\ Dispatch(choice) = "exit"
           /\ Turn(choice, "done")
           /\ UNCHANGED shown

RunUnary ==
    /\ AtMenu
    /\ \E choice \in TypedChoices, raw \in TypedNumbers :
           /\ Dispatch(choice) = "unary"
           /\ TurnHandled(choice, _handle_unary(choice, raw))

RunBinary ==
    /\ AtMenu
    /\ \E choice \in TypedChoices, raw1 \in TypedNumbers, raw2 \in TypedNumbers :
           /\ Dispatch(choice) = "binary"
           /\ TurnHandled(choice, _handle_binary(choice, raw1, raw2))

RunEval ==
    /\ AtMenu
    /\ \E choice \in TypedChoices, expr \in TypedExprs :
           /\ Dispatch(choice) = "eval"
           /\ TurnHandled(choice, _handle_eval(expr))

RunClamp ==
    /\ AtMenu
    /\ \E choice \in TypedChoices, raw \in TypedNumbers, raw_min \in TypedNumbers,
          raw_max \in TypedNumbers :
           /\ Dispatch(choice) = "clamp"
           /\ TurnHandled(choice, _handle_clamp(raw, raw_min, raw_max))

RunUnknown ==
    /\ AtMenu
    /\ \E choice \in TypedChoices :
           /\ Dispatch(choice) = "unknown"
           /\ Turn(choice, "menu")
           /\ UNCHANGED shown

\* input() at the menu prompt raises EOFError: the loop is left by the exception
RunEndOfInput ==
    /\ pc = "menu"
    /\ pc' = "raised"
    /\ last' = [choice |-> "", status |-> "error", err |-> "EOFError", result |-> None]
    /\ UNCHANGED <<history, memory, mathDict, shown, steps, call, ret, log>>
    /\ UNCHANGED <<input_var, result_var, history_box>>

NoCall == [fn |-> "", args |-> <<>>, expr |-> NoneArg, mem |-> None]

NoRet == Failed("", "", "", MathNames, FALSE, FALSE)

\* Calculator(): an empty history and no memory, in a process that has just
\* imported the math module
Init ==
    /\ history = <<>>
    /\ memory = None
    /\ pc = "menu"
    /\ mathDict = MathNames
    /\ shown = <<>>
    /\ last = NoStep
    /\ steps = 0
    /\ call = NoCall
    /\ ret = NoRet
    /\ log = <<>>
    /\ input_var = ""
    /\ result_var = ""
    /\ history_box = <<>>

Next ==
    \/ RunBlank
    \/ RunShowHistory
    \/ RunRecallMemory
    \/ RunExit
    \/ RunUnary
    \/ RunBinary
    \/ RunEval
    \/ RunClamp
    \/ RunUnknown
    \/ RunEndOfInput

Spec == Init /\ [][Next]_vars

-----------------------------------------------------------------------------
(* Direct calls of the library and of the evaluators, as the tests and a   *)
(* program importing the modules make them                                 *)

\* the bound on the integers passed to the library
MaxInt == 3

\* the numbers passed: the integers and the floats that are whole or a half
\* up to the bound, and the three special floats
Values ==
    {I(k) : k \in -MaxInt..MaxInt} \cup {F(n, 2) : n \in -2 * MaxInt..2 * MaxInt}
        \cup {NaN, PInf, NInf}

\* the decimal text of a small natural number
Digits(k) ==
    CASE k = 0 -> "0" [] k = 1 -> "1" [] k = 2 -> "2" [] k = 3 -> "3" [] OTHER -> "4"

\* the text "M * k"
MTimes(k) ==
    IF k >= 0 THEN <<"M", " ", "*", " ", Digits(k)>>
    ELSE <<"M", " ", "*", " ", "-", Digits(-k)>>

\* the integers k of the expressions "M * k" evaluated
Multipliers == -MaxInt..MaxInt

\* the expressions evaluated
Exprs ==
    {MTimes(k) : k \in Multipliers} \cup
    {<<>>, <<" ">>, <<"\t">>, <<" ", "\t", " ">>,
     <<"2", " ", "+", " ", "2">>,
     <<" ", "1", "+", "1">>,
     <<"M">>,
     <<"M", " ", "+", " ", "1">>,
     <<"pi">>,
     <<"sqrt">>,
     <<"'3'">>,
     <<"2", " ", "+">>,
     <<"1", " ", "/", " ", "0">>,
     <<"sqrt", "(", "4", ")">>,
     <<"sqrt", "(", "-", "1", ")">>,
     <<"pow", "(", "2", ",", "3", ")">>,
     <<"sin", "(", "30", ")", " ", "+", " ", "log10", "(", "100", ")", " ", "-", " ",
       "sqrt", "(", "16", ")">>,
     <<"foo">>,
     <<"2", " ", "+", " ", "foo">>,
     <<"os", "(", ")">>,
     <<"(", "1", ")", ".", "real">>,
     <<"__import__", "(", "'os'", ")">>,
     <<"__builtins__">>,
     <<"(", "1", ")", ".", "__add__", "(", "2", ")">>,
     <<"M", ".", "__add__", "(", "1", ")">>,
     <<"sqrt", ".", "__self__">>,
     <<"sqrt", ".", "__self__", ".", "pi">>,
     <<"sqrt", ".", "__self__", ".", "__dict__", ".", "clear", "(", ")">>}

\* what is passed as expr: a string, None, an int
ExprArgs == {StrArg(e) : e \in Exprs} \cup {NoneArg, IntArg(5), IntArg(0)}

\* the memory passed: None, a number, or the 4 that "2 + 2" returns
Memories == {None, I(4)} \cup Values

LibCall(fn, args) == [fn |-> fn, args |-> args, expr |-> NoneArg, mem |-> None]

EvalCall(fn, expr, mem) == [fn |-> fn, args |-> <<>>, expr |-> expr, mem |-> mem]

UnaryFuncs == {UNARY_OPS[c].func : c \in DOMAIN UNARY_OPS}

BinaryFuncs == {BINARY_OPS[c].func : c \in DOMAIN BINARY_OPS}

LibraryCalls ==
    {LibCall(f, <<x>>) : f \in UnaryFuncs, x \in Values} \cup
    {LibCall(f, <<x, y>>) : f \in BinaryFuncs, x \in Values, y \in Values} \cup
    {LibCall("clamp", <<x, lo, hi>>) : x \in Values, lo \in Values, hi \in Values}

EvaluatorCalls ==
    {EvalCall("evaluate_expression", e, m) : e \in ExprArgs, m \in Memories} \cup
    {EvalCall("evaluate_expression_safe", e, None) : e \in ExprArgs}

\* the outcome of a library function, in the shape of an evaluator's
OfLibrary(o) ==
    [ok |-> o.ok, val |-> o.val, err |-> o.err, msg |-> o.msg, cause |-> "",
     md |-> mathDict, built |-> FALSE, evald |-> FALSE]

\* the call c made in the current state
Perform(c) ==
    CASE c.fn = "evaluate_expression" -> evaluate_expression(c.expr, c.mem)
      [] c.fn = "evaluate_expression_safe" -> evaluate_expression_safe(c.expr)
      [] c.fn = "clamp" -> OfLibrary(clamp(c.args[1], c.args[2], c.args[3]))
      [] c.fn \in UnaryFuncs -> OfLibrary(CallUnary(c.fn, c.args[1]))
      [] c.fn \in BinaryFuncs -> OfLibrary(CallBinary(c.fn, c.args[1], c.args[2]))

\* the call c returns or raises r
Returns(c, r) ==
    /\ call' = c
    /\ ret' = r
    /\ mathDict' = r.md
    /\ log' = Append(log, [call |-> c, ret |-> r])
    /\ UNCHANGED <<history, memory, shown, last, steps, input_var, result_var, history_box>>

\* one call, made in a process that has just imported the modules
InitCall ==
    /\ call \in LibraryCalls \cup EvaluatorCalls
    /\ pc = "call"
    /\ ret = NoRet
    /\ mathDict = MathNames
    /\ log = <<>>
    /\ input_var = ""
    /\ result_var = ""
    /\ history_box = <<>>
    /\ history = <<>>
    /\ memory = None
    /\ shown = <<>>
    /\ last = NoStep
    /\ steps = 0

DoCall ==
    /\ pc = "call"
    /\ pc' = "returned"
    /\ Returns(call, Perform(call))

SpecCall == InitCall /\ [][DoCall]_vars

\* the bound on the number of calls a caller of the evaluator makes in a row
MaxCalls == 3

\* the calls of evaluate_expression such a caller makes
RepeatedCalls ==
    {EvalCall("evaluate_expression", StrArg(e), m) :
        e \in {<<"2", " ", "+", " ", "2">>,
               <<"M", " ", "*", " ", "3">>,
               <<"sqrt", "(", "4", ")">>,
               <<"foo">>,
               <<>>,
               <<"(", "1", ")", ".", "__add__", "(", "2", ")">>,
               <<"sqrt", ".", "__self__", ".", "__dict__", ".", "clear", "(", ")">>},
        m \in {None, I(4)}}

InitCalls ==
    /\ call = NoCall
    /\ pc = "caller"
    /\ ret = NoRet
    /\ mathDict = MathNames
    /\ log = <<>>
    /\ input_var = ""
    /\ result_var = ""
    /\ history_box = <<>>
    /\ history = <<>>
    /\ memory = None
    /\ shown = <<>>
    /\ last = NoStep
    /\ steps = 0

Evaluate ==
    /\ pc = "caller"
    /\ Len(log) < MaxCalls
    /\ UNCHANGED pc
    /\ \E c \in RepeatedCalls : Returns(c, Perform(c))

SpecCalls == InitCalls /\ [][Evaluate]_vars

\* a session that has already recorded one entry less than 'h' displays:
\* abs(1) = 1, abs(2) = 2, ...
InitLong ==
    /\ history = [i \in 1..(HistoryDisplayLimit - 1) |-> Entry("abs", <<I(i)>>, <<>>, I(i))]
    /\ memory = I(HistoryDisplayLimit - 1)
    /\ pc = "menu"
    /\ mathDict = MathNames
    /\ shown = <<>>
    /\ last = NoStep
    /\ steps = 0
    /\ call = NoCall
    /\ ret = NoRet
    /\ log = <<>>
    /\ input_var = ""
    /\ result_var = ""
    /\ history_box = <<>>

SpecLong == InitLong /\ [][Next]_vars

-----------------------------------------------------------------------------
(* One call of parse_smart_expression, and its output evaluated as          *)
(* calculate() evaluates it                                                 *)

\* number literals of Python: integers, floats with a point, floats with an
\* exponent (signed or not, e or E)
NumericLiterals == {"4", "5", "0", "2.5", "20", "1e-3", "1E2"}

PhraseKinds == {"add", "subtract", "multiply", "divide"}

\* the English phrase of a kind for the operands a and b
PhraseOf(kind, a, b) ==
    CASE kind = "add" -> "add " \o a \o " and " \o b
      [] kind = "subtract" -> "subtract " \o a \o " from " \o b
      [] kind = "multiply" -> "multiply " \o a \o " by " \o b
      [] kind = "divide" -> "divide " \o a \o " by " \o b

\* texts that are no phrase: expressions, with capitals or more whitespace
\* for some, words of the translator for others
PlainTexts ==
    {"2 + 2", "sqrt(16) + sin(30)", "(1+2)*3", "7 // 2", "10 % 3", "abs(-3)", "1.5e2",
     "2 * PI", "SQRT(16)", "2  +  2", " 2 + 2", "2 + 2 ", "2\t+ 2", "", "   ",
     "2 plus 2", "5 times 6", "what is 2 + 2", "please", "sqrt 16", "sin 30",
     "2 ^ 3", "2 = 2", "2=2", "10 percent", "sin(30)", "log10(100)", "1 and 2",
     "band(1)", "sinh(0)", "add 4", "multiplyx", "pow(2, 3)", "4 - 5", "0.5 / 4"}

\* what is passed as text when it is no string: None, an int
OtherArgs == {[py |-> "NoneType", truthy |-> FALSE, text |-> ""],
              [py |-> "int", truthy |-> TRUE, text |-> ""]}

ParseCall(kind, a, b, text) ==
    [fn |-> "parse_smart_expression", kind |-> kind, a |-> a, b |-> b, text |-> text]

ParseCalls ==
    {ParseCall(k, a, b, TextArg(PhraseOf(k, a, b))) :
        k \in PhraseKinds, a \in NumericLiterals, b \in NumericLiterals} \cup
    {ParseCall("", "", "", TextArg(t)) : t \in PlainTexts} \cup
    {ParseCall("", "", "", t) : t \in OtherArgs}

\* what the call returned, and the evaluation of it once made
Parsed(out, res) == [out |-> out, res |-> res]

InitParse ==
    /\ call \in ParseCalls
    /\ pc = "call"
    /\ ret = Parsed("", NoRet)
    /\ mathDict = MathNames
    /\ log = <<>>
    /\ input_var = ""
    /\ result_var = ""
    /\ history_box = <<>>
    /\ history = <<>>
    /\ memory = None
    /\ shown = <<>>
    /\ last = NoStep
    /\ steps = 0

\* parsed = parse_smart_expression(expr_in)
Rewrite ==
    /\ pc = "call"
    /\ pc' = "parsed"
    /\ ret' = Parsed(parse_smart_expression(call.text), NoRet)
    /\ UNCHANGED <<history, memory, mathDict, shown, last, steps, call, log,
                   input_var, result_var, history_box>>

\* the evaluation of parsed with what it did to the math module
EvaluatedAs(res) ==
    /\ ret' = Parsed(ret.out, res)
    /\ mathDict' = res.md

\* evaluate_expression_safe(parsed.replace("^", "**"))
EvaluateOutput ==
    /\ pc = "parsed"
    /\ pc' = "evaluated"
    /\ EvaluatedAs(evaluate_expression_safe(ExprOfText(CaretToPower(ret.out))))
    /\ UNCHANGED <<history, memory, shown, last, steps, call, log,
                   input_var, result_var, history_box>>

SpecParse == InitParse /\ [][Rewrite \/ EvaluateOutput]_vars

-----------------------------------------------------------------------------
(* A session of the window: the user edits the entry, presses buttons and  *)
(* the Return key, and double-clicks lines of the history list. log keeps  *)
(* what each calculate() and each clear_history() did, oldest first.       *)

\* the bound on the number of events of a session
MaxEvents == 4

\* what the user leaves in the entry after editing it
TypedTexts == {"2 + 2", "add 4 and 5", "1/4", "1/0", "  ", "0=0"}

\* the buttons whose key is appended as it is
AppendedKeys == {"0", "*"}

\* the buttons of sqrt, log, sin, cos, tan and pow
FunctionKeys == {"sqrt", "pow"}

\* the last event: which handler ran, for which key or line, and how a
\* calculate() ended ("ok", "error", "empty")
Event(op, key, outcome) == [op |-> op, key |-> key, outcome |-> outcome]

\* SmartCalculatorApp(root): an empty entry, an empty result label and an
\* empty history list
InitGui ==
    /\ input_var = ""
    /\ result_var = ""
    /\ history_box = <<>>
    /\ mathDict = MathNames
    /\ log = <<>>
    /\ last = Event("", "", "")
    /\ steps = 0
    /\ pc = "mainloop"
    /\ call = NoCall
    /\ ret = NoRet
    /\ history = <<>>
    /\ memory = None
    /\ shown = <<>>

\* an event was handled
Handles(op, key, outcome) ==
    /\ steps' = steps + 1
    /\ last' = Event(op, key, outcome)
    /\ UNCHANGED <<pc, call, ret, history, memory, shown>>

\* the user edits the text of the entry, which is input_var
EditEntry ==
    /\ steps < MaxEvents
    /\ \E t \in TypedTexts : input_var' = t /\ Handles("edit", t, "")
    /\ UNCHANGED <<result_var, history_box, mathDict, log>>

\* _insert_text(txt)
_insert_text(txt) == input_var' = input_var \o txt

\* on_button("C")
PressC ==
    /\ steps < MaxEvents
    /\ input_var' = ""
    /\ result_var' = ""
    /\ Handles("on_button", "C", "")
    /\ UNCHANGED <<history_box, mathDict, log>>

\* on_button of the backspace key: cur[:-1]
PressBackspace ==
    /\ steps < MaxEvents
    /\ input_var' = SubSeq(input_var, 1, Len(input_var) - 1)
    /\ Handles("on_button", "backspace", "")
    /\ UNCHANGED <<result_var, history_box, mathDict, log>>

\* what a handler did, for log: a calculate() with its outcome, the text it
\* displayed and the line it added, or a clear_history()
Did(op, ok, display, line) == [op |-> op, ok |-> ok, display |-> display, line |-> line]

\* clear_history()
clear_history ==
    /\ history_box' = <<>>
    /\ log' = Append(log, Did("clear_history", TRUE, "", ""))

\* on_button("Clear History"), and the button under the history list
PressClearHistory ==
    /\ steps < MaxEvents
    /\ clear_history
    /\ Handles("on_button", "Clear History", "")
    /\ UNCHANGED <<input_var, result_var, mathDict>>

\* on_button("Ans"): the text of the result label is appended when it is
\* not empty
PressAns ==
    /\ steps < MaxEvents
    /\ IF result_var # "" THEN _insert_text(result_var) ELSE UNCHANGED input_var
    /\ Handles("on_button", "Ans", "")
    /\ UNCHANGED <<result_var, history_box, mathDict, log>>

\* on_button of a function key: "^" for pow, the name and "(" for the others
PressFunction ==
    /\ steps < MaxEvents
    /\ \E key \in FunctionKeys :
          /\ _insert_text(IF key = "pow" THEN "^" ELSE key \o "(")
          /\ Handles("on_button", key, "")
    /\ UNCHANGED <<result_var, history_box, mathDict, log>>

\* on_button of any other key: the key is appended
PressKey ==
    /\ steps < MaxEvents
    /\ \E key \in AppendedKeys : _insert_text(key) /\ Handles("on_button", key, "")
    /\ UNCHANGED <<result_var, history_box, mathDict, log>>

\* a variant of ShowsResult that adds the line at the end of the list
ShowsResultAtEnd(expr_in, display) ==
    /\ result_var' = display
    /\ history_box' = Append(history_box, HistLine(expr_in, display))
    /\ input_var' = display
    /\ log' = Append(log, Did("calculate", TRUE, display, HistLine(expr_in, display)))
    /\ Handles("calculate", expr_in, "ok")

\* calculate() after a result: the label, the new first line of the history
\* list and the entry
ShowsResult(expr_in, display) ==
    /\ result_var' = display
    /\ history_box' = <<HistLine(expr_in, display)>> \o history_box
    /\ input_var' = display
    /\ log' = Append(log, Did("calculate", TRUE, display, HistLine(expr_in, display)))
    /\ Handles("calculate", expr_in, "ok")

\* calculate() after an exception of the evaluator
ShowsError(expr_in, r) ==
    /\ result_var' = ErrorText(r)
    /\ log' = Append(log, Did("calculate", FALSE, ErrorText(r), ""))
    /\ Handles("calculate", expr_in, "error")
    /\ UNCHANGED <<input_var, history_box>>

\* calculate() from the evaluation on
Shows(expr_in, r) ==
    /\ mathDict' = r.md
    /\ IF r.ok THEN ShowsResult(expr_in, DisplayOf(r.val)) ELSE ShowsError(expr_in, r)

\* calculate() for the stripped text of the entry
calculate(expr_in) ==
    IF expr_in = ""
    THEN /\ log' = Append(log, Did("calculate", FALSE, "", ""))
         /\ Handles("calculate", expr_in, "empty")
         /\ UNCHANGED <<input_var, result_var, history_box, mathDict>>
    ELSE Shows(expr_in, Evaluated(expr_in))

\* on_button("="), and the Return key
PressEquals ==
    /\ steps < MaxEvents
    /\ calculate(StripText(input_var))

\* where " = " is first in line (0 when it is not in it)
FirstSeparator(line) ==
    IF \E i \in 1..Len(line) : LitAt(line, i, " = ")
    THEN CHOOSE i \in 1..Len(line) :
            LitAt(line, i, " = ") /\ \A h \in 1..(i - 1) : ~LitAt(line, h, " = ")
    ELSE 0

\* line.split(" = ", 1)[0], or the line when " = " is not in it
ExprOfLine(line) ==
    IF FirstSeparator(line) = 0 THEN line ELSE SubSeq(line, 1, FirstSeparator(line) - 1)

\* on_history_double(event): sel is the index of the selected line, from 0,
\* or -1 when no line is selected
on_history_double ==
    /\ steps < MaxEvents
    /\ \E sel \in -1..(Len(history_box) - 1) :
          /\ IF sel = -1 THEN UNCHANGED input_var
             ELSE input_var' = ExprOfLine(history_box[sel + 1])
          /\ Handles("on_history_double", NatStr(sel + 1), "")
    /\ UNCHANGED <<result_var, history_box, mathDict, log>>

NextGui ==
    \/ EditEntry
    \/ PressC
    \/ PressBackspace
    \/ PressClearHistory
    \/ PressAns
    \/ PressFunction
    \/ PressKey
    \/ PressEquals
    \/ on_history_double

SpecGui == InitGui /\ [][NextGui]_vars

-----------------------------------------------------------------------------
(* Properties                                                              *)

Evaluators == {"evaluate_expression", "evaluate_expression_safe"}

\* the keys of the namespace the evaluator of the call builds on import
AllowList(c) ==
    IF c.fn = "evaluate_expression" THEN NamespaceKeys(MathNames)
    ELSE GuiNamespaceKeys(MathNames)

\* the string of the call holds an identifier that is no key of the namespace
HasUnknownIdentifier(c) ==
    \E i \in 1..Len(c.expr.toks) :
        c.expr.toks[i] \in Identifiers /\ c.expr.toks[i] \notin AllowList(c)

\* C1: for both evaluators, every expression that holds a double-underscore
\* token or an identifier that is no key of the restricted namespace fails with
\* a ValueError: it returns no number and leaves the bindings outside the
\* allow-list (the math module's own dictionary) as they were.
C1_DunderAndUnknownRejected ==
    (/\ pc = "returned"
     /\ call.fn \in Evaluators
     /\ call.expr.py = "str"
     /\ HasDunder(call.expr.toks) \/ HasUnknownIdentifier(call))
        => (~ret.ok /\ ret.err = "ValueError" /\ ret.md = MathNames)

\* the memory is None before any entry, and the result of the last entry after
MemoryIsLastResult ==
    memory = IF history = <<>> THEN None ELSE history[Len(history)].result

\* C2: in a console session the memory slot is absent while no computation has
\* succeeded, and otherwise it is the result of the most recent successful
\* computation; a turn of the loop that is no successful computation leaves it
\* unchanged.
C2_MemoryIsMostRecentResult ==
    /\ []MemoryIsLastResult
    /\ [][last'.status # "ok" => memory' = memory]_vars
    /\ [][(steps' = steps + 1 /\ last'.status = "ok") => memory' = last'.result]_vars

\* a failure after a success: the memory still holds the earlier result
C2_Witness ==
    /\ last.status = "error"
    /\ history # <<>>
    /\ memory = history[Len(history)].result

\* C3: a ZeroDivisionError or a ValueError (DivisionByZero, DomainError,
\* InvalidRange, InvalidExpression, NonNumericResult) raised while a menu choice
\* is handled does not end the session: the loop is back at the menu prompt;
\* and the loop has returned only when the choice was "31".
C3_ErrorsReturnToMenu ==
    /\ (last.status = "error" /\ last.err \in {"ZeroDivisionError", "ValueError"})
            => pc = "menu"
    /\ pc = "done" => last.choice = "31"

\* a division by zero was reported and the menu is prompting again
C3_Witness ==
    /\ last.status = "error"
    /\ last.err = "ZeroDivisionError"
    /\ pc = "menu"
    /\ steps < MaxSteps

\* the last n entries of h, in the order of h
LastEntries(h, n) ==
    [i \in 1..(IF Len(h) <= n THEN Len(h) ELSE n) |->
        h[(IF Len(h) <= n THEN 0 ELSE Len(h) - n) + i]]

\* C4: every turn of the loop leaves the entries of the history where they
\* are; a successful computation adds exactly one entry at the end and any
\* other turn adds none; 'h' lists the most recent 50 entries (all when there
\* are fewer) in insertion order.
C4_HistoryAppendOnly ==
    /\ [][/\ Len(history') >= Len(history)
          /\ SubSeq(history', 1, Len(history)) = history]_vars
    /\ [][steps' = steps + 1 =>
            Len(history') = Len(history) + (IF last'.status = "ok" THEN 1 ELSE 0)]_vars
    /\ [][(steps' = steps + 1 /\ Dispatch(last'.choice) = "history") =>
            shown' = LastEntries(history, 50)]_vars

\* 'h' was typed with one entry more than it displays: the oldest is left out
C4_Witness ==
    /\ Len(history) = HistoryDisplayLimit + 1
    /\ Dispatch(last.choice) = "history"
    /\ Len(shown) = HistoryDisplayLimit
    /\ shown[1] = history[2]
    /\ shown[HistoryDisplayLimit] = history[HistoryDisplayLimit + 1]

\* C5: evaluate_expression(expr, memory = m) binds M to m: for a number m and
\* an integer k, "M * k" returns m * k; and with the 4 that "2 + 2" returns as
\* the memory, "M * 3" returns 12.
C5_MemoryBoundToM ==
    (pc = "returned" /\ call.fn = "evaluate_expression") =>
        /\ \A k \in Multipliers :
            (call.expr = StrArg(MTimes(k)) /\ call.mem # None)
                => (ret.ok /\ ret.val = PyMul(call.mem, I(k)))
        /\ call.expr = StrArg(<<"2", " ", "+", " ", "2">>) => (ret.ok /\ ret.val = I(4))
        /\ (call.expr = StrArg(MTimes(3)) /\ call.mem = I(4)) => (ret.ok /\ ret.val = I(12))

\* "M * 3" was evaluated with the memory 4 and returned 12
C5_Witness ==
    /\ pc = "returned"
    /\ call.fn = "evaluate_expression"
    /\ call.expr = StrArg(MTimes(3))
    /\ call.mem = I(4)
    /\ ret.ok
    /\ ret.val = I(12)

\* every character of the string is whitespace (the empty string included)
WhitespaceOnly(toks) == \A i \in 1..Len(toks) : toks[i] \in Whitespace

\* C6: both evaluators reject the empty string and a string of whitespace only
\* with the ValueError "Empty expression", before the namespace is built and
\* before anything is evaluated; evaluate_expression rejects every value that
\* is no string in the same way.
C6_EmptyExpressionRejected ==
    (/\ pc = "returned"
     /\ call.fn \in Evaluators
     /\ \/ call.expr.py = "str" /\ WhitespaceOnly(call.expr.toks)
        \/ call.fn = "evaluate_expression" /\ call.expr.py # "str")
        => /\ ~ret.ok
           /\ ret.err = "ValueError"
           /\ ret.msg = "Empty expression"
           /\ ~ret.built
           /\ ~ret.evald

\* a string of a space, a tab and a space was rejected as empty
C6_Witness ==
    /\ pc = "returned"
    /\ call.fn = "evaluate_expression_safe"
    /\ call.expr = StrArg(<<" ", "\t", " ">>)
    /\ ~ret.ok
    /\ ret.msg = "Empty expression"
    /\ ~ret.built

Dividers == {"divide", "modulus", "floor_divide"}

\* r is the finite float n / d
IsQuotient(r, n, d) == r.ty = "float" /\ r.cls = "fin" /\ r.n * d = r.d * n

\* r is the int floor(n / d)
IsFloor(r, n, d) ==
    /\ r.ty = "int" /\ r.cls = "fin" /\ r.d = 1
    /\ IF d > 0 THEN r.n * d <= n /\ n < (r.n + 1) * d
       ELSE r.n * d >= n /\ n > (r.n + 1) * d

Product[n \in Nat] == IF n = 0 THEN 1 ELSE n * Product[n - 1]

\* C8: for an integral x >= 0 (an int, or a float with no fractional part)
\* factorial returns x!; for a non-integral or a negative x it fails with a
\* ValueError.
C8_Factorial ==
    (pc = "returned" /\ call.fn = "factorial") =>
        IF call.args[1].cls = "fin" /\ call.args[1].d = 1 /\ call.args[1].n >= 0
        THEN ret.ok /\ ret.val = I(Product[call.args[1].n])
        ELSE ~ret.ok /\ ret.err = "ValueError"

\* factorial(3.0) returned 6
C8_Witness ==
    /\ pc = "returned"
    /\ call.fn = "factorial"
    /\ call.args = <<F(3, 1)>>
    /\ ret.ok
    /\ ret.val = I(6)

\* r lies in [lo, hi] and is x when x does
Clamped(r, x, lo, hi) ==
    /\ Le(lo, r)
    /\ Le(r, hi)
    /\ (Le(lo, x) /\ Le(x, hi)) => Eq(r, x)

\* C9 as stated: clamp fails with a ValueError when lo > hi; otherwise it
\* returns a value r with lo <= r <= hi that equals x whenever lo <= x <= hi.
C9_AsStated ==
    (pc = "returned" /\ call.fn = "clamp") =>
        IF Gt(call.args[2], call.args[3])
        THEN ~ret.ok /\ ret.err = "ValueError"
        ELSE ret.ok /\ Clamped(ret.val, call.args[1], call.args[2], call.args[3])

\* C9: clamp fails with a ValueError when lo > hi; otherwise it returns
\* float(max(min(x, hi), lo)), and when none of x, lo and hi is a NaN that is
\* a value r with lo <= r <= hi that equals x whenever lo <= x <= hi.
C9_Clamp ==
    (pc = "returned" /\ call.fn = "clamp") =>
        IF Gt(call.args[2], call.args[3])
        THEN ~ret.ok /\ ret.err = "ValueError"
        ELSE /\ ret.ok
             /\ ret.val = ToFloat(PyMax(PyMin(call.args[1], call.args[3]), call.args[2]))
             /\ (\A i \in 1..3 : call.args[i].cls # "nan")
                    => Clamped(ret.val, call.args[1], call.args[2], call.args[3])

\* clamp(3, 0, 2) returned 2.0
C9_Witness ==
    /\ pc = "returned"
    /\ call.fn = "clamp"
    /\ call.args = <<I(3), I(0), I(2)>>
    /\ ret.ok
    /\ ret.val = F(2, 1)

\* what the caller of an evaluator sees of a call
Outcome(r) == <<r.ok, r.val, r.err, r.msg>>

\* C10: evaluate_expression keeps no state between calls: two calls with the
\* same expression and the same memory have the same outcome, whatever was
\* evaluated in between.
C10_SameCallSameOutcome ==
    \A i, j \in 1..Len(log) :
        log[i].call = log[j].call => Outcome(log[i].ret) = Outcome(log[j].ret)

\* the choices print_menu lists: "1" to "32"
MenuChoices ==
    {"1", "2", "3", "4", "5", "6", "7", "8", "9", "10", "11", "12", "13", "14",
     "15", "16", "17", "18", "19", "20", "21", "22", "23", "24", "25", "26",
     "27", "28", "29", "30", "31", "32"}

\* the handlers whose test in Calculator.run a choice passes
HandlersOf(c) ==
    {h \in {"exit", "unary", "binary", "eval", "clamp"} :
        \/ h = "exit" /\ c = "31"
        \/ h = "unary" /\ c \in DOMAIN UNARY_OPS
        \/ h = "binary" /\ c \in DOMAIN BINARY_OPS
        \/ h = "eval" /\ c = "32"
        \/ h = "clamp" /\ c = "20"}

\* C14: the menu choices "1" to "32" are partitioned among the handlers: the
\* keys of UNARY_OPS and of BINARY_OPS are disjoint and, with "20", "31" and
\* "32", they are exactly the 32 choices, each passing the test of one handler
\* only, the one Calculator.run dispatches it to; no turn of the loop reports
\* "Unknown choice" for one of them.
C14_MenuPartitioned ==
    /\ DOMAIN UNARY_OPS \cap DOMAIN BINARY_OPS = {}
    /\ DOMAIN UNARY_OPS \cup DOMAIN BINARY_OPS \cup {"20", "31", "32"} = MenuChoices
    /\ Cardinality(DOMAIN UNARY_OPS) + Cardinality(DOMAIN BINARY_OPS) + 3 = 32
    /\ \A c \in MenuChoices : HandlersOf(c) = {Dispatch(c)}
    /\ (steps > 0 /\ last.choice \in MenuChoices /\ last.err # "EOFError")
            => (last.status \in {"ok", "error"} \/ pc = "done")

\* "20" was typed and the clamp handler computed a result
C14_Witness ==
    /\ last.choice = "20"
    /\ Dispatch(last.choice) = "clamp"
    /\ last.status = "ok"
    /\ history # <<>>
    /\ history[Len(history)].name = "clamp"


\* the float the arithmetic of a phrase gives for the values x and y
PhraseValue(kind, x, y) ==
    CASE kind = "add" -> ToFloat(PyAdd(x, y))
      [] kind = "subtract" -> ToFloat(PySub(y, x))
      [] kind = "multiply" -> ToFloat(PyMul(x, y))
      [] kind = "divide" -> ToFloat(TrueDivVal(x, y))

\* the call is a phrase the claim covers: a division only by a B that is not 0
CoveredPhrase(c) ==
    c.kind \in PhraseKinds /\ (c.kind = "divide" => ~IsZero(NumLit(c.b)))

\* C11: for all numeric literals A and B, the output of parse_smart_expression
\* for "add A and B", "subtract A from B", "multiply A by B" and "divide A by
\* B" (B not 0) evaluates to A + B, B - A, A * B and A / B.
C11_PhrasesEvaluateToTheirValue ==
    (pc = "evaluated" /\ CoveredPhrase(call))
        => (/\ ret.res.ok
            /\ ret.res.val = PhraseValue(call.kind, NumLit(call.a), NumLit(call.b)))

\* the characters a phrase takes into an operand: \w and "."
PlainLiteral(a) == \A i \in 1..Len(a) : IsWordChar(Ch(a, i)) \/ Ch(a, i) = "."

OperatorOf(kind) ==
    CASE kind = "add" -> "+" [] kind = "subtract" -> "-"
      [] kind = "multiply" -> "*" [] kind = "divide" -> "/"

\* the expression a phrase stands for, in lower case
Parenthesised(kind, a, b) ==
    IF kind = "subtract"
    THEN "(" \o StrLower(b) \o " - " \o StrLower(a) \o ")"
    ELSE "(" \o StrLower(a) \o " " \o OperatorOf(kind) \o " " \o StrLower(b) \o ")"

\* C11, for literals without a sign in them: the output is the parenthesised
\* expression in lower case, no later substitution changes it, and it
\* evaluates to the value of the phrase.
C11_PlainLiterals ==
    (/\ pc = "evaluated"
     /\ CoveredPhrase(call)
     /\ PlainLiteral(call.a)
     /\ PlainLiteral(call.b))
        => (/\ ret.out = Parenthesised(call.kind, call.a, call.b)
            /\ ret.res.ok
            /\ ret.res.val = PhraseValue(call.kind, NumLit(call.a), NumLit(call.b)))

\* a phrase with a signed exponent in an operand is left as it was, and what
\* is left is no expression
C11_Witness ==
    /\ pc = "evaluated"
    /\ call.kind = "multiply"
    /\ call.a = "1e-3"
    /\ call.b = "5"
    /\ ret.out = "multiply 1e-3 by 5"
    /\ ~ret.res.ok
    /\ ret.res.cause = "SyntaxError"

\* no pattern of the translator matches anywhere in s, whatever the case of
\* its letters
NoPattern(s) ==
    \A k \in 1..Len(Patterns) : MatchesFrom(StrLower(s), 1, Patterns[k]) = {}

\* s has no capital letter, no whitespace at its ends and no whitespace
\* other than single spaces
Tidy(s) ==
    /\ \A i \in 1..Len(s) : LowerChar(Ch(s, i)) = Ch(s, i)
    /\ \A i \in 1..Len(s) :
          Ch(s, i) \in Whitespace
             => (Ch(s, i) = " " /\ i > 1 /\ i < Len(s) /\ Ch(s, i + 1) \notin Whitespace)

\* s in lower case, without the whitespace at its ends, each other run of
\* whitespace made one space
Normalised(s) == Sub(StripText(StrLower(s)), 1, Spaces)

\* C12 as stated: for every input string in which no pattern matches, the
\* output equals the input.
C12_AsStated ==
    (pc # "call" /\ call.text.py = "str" /\ NoPattern(call.text.text))
        => ret.out = call.text.text

\* C12: parse_smart_expression never fails: it returns "" for what is no
\* string, and for a string in which no pattern matches it returns the string
\* in lower case with its whitespace normalised, which is the string itself
\* when that is in lower case already and its whitespace is single spaces
\* between other characters.
C12_NoOpUpToCaseAndWhitespace ==
    pc # "call"
        => (/\ ret.out \in STRING
            /\ call.text.py # "str" => ret.out = ""
            /\ (call.text.py = "str" /\ NoPattern(call.text.text))
                  => (/\ ret.out = Normalised(call.text.text)
                      /\ Tidy(call.text.text) => ret.out = call.text.text))

C12_Witness ==
    /\ pc = "parsed"
    /\ call.text.text = "sqrt(16) + sin(30)"
    /\ NoPattern(call.text.text)
    /\ Tidy(call.text.text)
    /\ ret.out = "sqrt(16) + sin(30)"

\* the lines of the successful calculations of l, oldest first
RECURSIVE LinesOf(_)
LinesOf(l) ==
    IF l = <<>> THEN <<>>
    ELSE (IF Head(l).op = "calculate" /\ Head(l).ok THEN <<Head(l).line>> ELSE <<>>)
             \o LinesOf(Tail(l))

Reverse(s) == [i \in 1..Len(s) |-> s[Len(s) + 1 - i]]

\* what was done after the last clear_history() of l
SinceLastClear(l) ==
    IF \E i \in 1..Len(l) : l[i].op = "clear_history"
    THEN SubSeq(l, 1 + CHOOSE i \in 1..Len(l) :
                        /\ l[i].op = "clear_history"
                        /\ \A h \in (i + 1)..Len(l) : l[h].op # "clear_history",
                Len(l))
    ELSE l

\* C13 as stated: after any sequence of actions the history list holds one
\* line for each successful calculate() so far, the latest at index 0, and
\* no action has removed a line.
C13_AsStated == history_box = Reverse(LinesOf(log))

\* C13: the history list holds one line for each calculate() that succeeded
\* since "Clear History" was last pressed (since the start when it never
\* was), the latest at index 0; a failed or an empty calculate() adds no line,
\* and only "Clear History" removes lines: all of them.
C13_NewestFirstSinceLastClear == history_box = Reverse(LinesOf(SinceLastClear(log)))

C13_Witness ==
    /\ history_box = <<"add 4 and 5 = 9", "2 + 2 = 4">>
    /\ last.op = "calculate"
    /\ last.outcome = "ok"
    /\ Len(log) = 2

\* the text the last successful calculate() of l displayed ("" when none did)
LastDisplay(l) ==
    IF \E i \in 1..Len(l) : l[i].op = "calculate" /\ l[i].ok
    THEN l[CHOOSE i \in 1..Len(l) :
              /\ l[i].op = "calculate" /\ l[i].ok
              /\ \A h \in (i + 1)..Len(l) : ~(l[h].op = "calculate" /\ l[h].ok)].display
    ELSE ""

\* C15: pressing "Ans" appends to the entry the text displayed by the last
\* successful calculation, or nothing when there is none: never an error
\* message left by a failed calculate().
C15_AnsAppendsLastResult ==
    [][(steps' = steps + 1 /\ last'.key = "Ans")
          => input_var' = input_var \o LastDisplay(log)]_vars

\* "Ans" pressed after a failed calculate(): the message is in the entry
C15_Witness ==
    /\ last.key = "Ans"
    /\ input_var = "1/0Error: Error evaluating expression"
    /\ result_var = "Error: Error evaluating expression"
    /\ LastDisplay(log) = ""

=============================================================================
